---- MODULE Spec2Model ----
(***************************************************************************)
(* A model of daca: the RAM interpreter (daca/ram/interpreter.py), the RAM *)
(* program text codec (daca/ram/program.py, daca/ram/parser.py) and the    *)
(* Pidgin ALGOL to RAM compiler (daca/pidgin_algol/compiler.py).           *)
(*                                                                         *)
(* Conventions.  Python counters stay 0-based (location_counter,           *)
(* read_head, jumptable values); TLA+ sequences are 1-based, so element i  *)
(* of a Python sequence s is s[i + 1].  Text is a sequence of one-character*)
(* strings.  A Python dict whose insertion order is observable (the        *)
(* jumptable) is a sequence of [key, value] records with distinct keys;    *)
(* a dict whose order is not observable is a function.  A method that may  *)
(* raise returns a record whose field exc names the exception ("none" when *)
(* it returns normally) together with the state the exception leaves.      *)
(***************************************************************************)
EXTENDS Integers, Sequences, FiniteSets, TLC

VARIABLES
    ram,      \* the RAM dataclass instance (interpreter.py:29-36)
    ctl,      \* where the caller is: "idle", or "running" inside run()'s loop
    last,     \* the last call: what was called, how it ended, the state before
    ast,      \* the Pidgin ALGOL AST handed to RamCompiler.compile
    compiler, \* the RamCompiler instance and what its last compile call returned
    ref,      \* result of the big-step evaluation of ast on the input tape
    codec,    \* the RAM text codec: program, emitted text, tokens, parse result
    bts,      \* a BufferedTokenStream instance (common/token.py:26-37)
    btsLog,   \* the last call on bts, its result, and the caller's bookkeeping
    parser    \* the Pidgin ALGOL parser: its tokens and what parse returned

vars == <<ram, ctl, last, ast, compiler, ref, codec, bts, btsLog, parser>>

ramVars == <<ram, ctl, last>>

compVars == <<ast, compiler, ref>>

lexVars == <<bts, btsLog, parser>>

(***************************************************************************)
(* Bounds of the model.                                                    *)
(***************************************************************************)
MaxSteps == 6       \* step() calls explored per interpreter
MaxReadHead == 4    \* read_head values explored (failing READ *i advances it)
MaxVal == 40        \* magnitude of register values explored
MaxLexemes == 4     \* lexemes per RAM source text handed to the parser
MaxRunSteps == 80   \* step() calls explored per run of a compiled program
RefIters == 3       \* loop iterations within which a terminating run must halt
MaxTokens == 4      \* tokens of the source behind a BufferedTokenStream
MaxPeek == 2        \* largest n of peek(n) explored
MaxDepth == 2       \* live checkpoints explored by a caller of BufferedTokenStream
MaxPaLexemes == 3   \* lexemes of the short Pidgin ALGOL texts handed to the parser

(***************************************************************************)
(* Small helpers.                                                          *)
(***************************************************************************)
Abs(n) == IF n < 0 THEN -n ELSE n

Range(s) == {s[k] : k \in 1..Len(s)}

(***************************************************************************)
(* Python dict with observable insertion order: a sequence of entries.     *)
(***************************************************************************)
DictKeys(d) == {d[k].key : k \in 1..Len(d)}

DictHas(d, key) == key \in DictKeys(d)

DictGet(d, key) == d[CHOOSE k \in 1..Len(d) : d[k].key = key].value

\* d[key] = val: an existing key keeps its position, a new key goes last
DictSet(d, key, val) ==
    IF DictHas(d, key)
    THEN [k \in 1..Len(d) |-> IF d[k].key = key THEN [key |-> key, value |-> val] ELSE d[k]]
    ELSE Append(d, [key |-> key, value |-> val])

\* dict equality ignores insertion order
DictEq(d1, d2) == Range(d1) = Range(d2)

(***************************************************************************)
(* RAM program model (daca/ram/program.py).                                *)
(***************************************************************************)
Opcode == {"LOAD", "STORE", "ADD", "SUB", "MULT", "DIV", "READ", "WRITE",
           "JUMP", "JGTZ", "JZERO", "HALT"}

OperandFlag == {"literal", "direct", "indirect"}

Operand(value, flag) == [value |-> value, flag |-> flag]

JumpTarget(value) == [value |-> value]

\* Instruction(opcode, address); HALT carries no address (address = None)
Instruction(opcode, address) == [opcode |-> opcode, address |-> address]

HaltInstruction == [opcode |-> "HALT"]

Program(instructions, jumptable) ==
    [instructions |-> instructions, jumptable |-> jumptable]

(***************************************************************************)
(* RAM interpreter (daca/ram/interpreter.py).                              *)
(***************************************************************************)
\* RAM(program, input_tape): the dataclass defaults
NewRAM(program, input_tape) ==
    [program |-> program,
     input_tape |-> input_tape,
     read_head |-> 0,
     location_counter |-> 0,
     memory_registers |-> (0 :> 0),
     output_tape |-> <<>>,
     halted |-> FALSE,
     step_counter |-> 0]

Ok(m, next) == [m |-> m, next |-> next, exc |-> "none"]

Raise(m, exc) == [m |-> m, next |-> m.location_counter, exc |-> exc]

\* c(i) raises IndexError when register i was never written
c_raises(m, i) == i \notin DOMAIN m.memory_registers

c(m, i) == m.memory_registers[i]

set_c(m, i, val) ==
    [m EXCEPT !.memory_registers =
        [k \in (DOMAIN @) \cup {i} |-> IF k = i THEN val ELSE @[k]]]

v_raises(m, a) ==
    IF a.flag = "literal" THEN FALSE
    ELSE IF a.flag = "indirect"
         THEN c_raises(m, a.value) \/ c_raises(m, c(m, a.value))
         ELSE c_raises(m, a.value)

v(m, a) ==
    IF a.flag = "literal" THEN a.value
    ELSE IF a.flag = "indirect" THEN c(m, c(m, a.value))
    ELSE c(m, a.value)

\* LOAD falling back on 0 for a register that was never written
LOAD_mut_default(m, a) ==
    IF v_raises(m, a) THEN Ok(set_c(m, 0, 0), m.location_counter + 1)
    ELSE Ok(set_c(m, 0, v(m, a)), m.location_counter + 1)

LOAD(m, a) ==
    IF v_raises(m, a) THEN Raise(m, "IndexError")
    ELSE Ok(set_c(m, 0, v(m, a)), m.location_counter + 1)

STORE_mut_clobber(m, i) ==
    IF i.flag = "indirect"
    THEN IF c_raises(m, i.value) \/ c_raises(m, 0) THEN Raise(m, "IndexError")
         ELSE Ok(set_c(set_c(m, c(m, i.value), c(m, 0)), 0, c(m, i.value)),
                 m.location_counter + 1)
    ELSE IF c_raises(m, 0) THEN Raise(m, "IndexError")
         ELSE Ok(set_c(set_c(m, i.value, c(m, 0)), 0, i.value),
                 m.location_counter + 1)

STORE(m, i) ==
    IF i.flag = "indirect"
    THEN IF c_raises(m, i.value) \/ c_raises(m, 0) THEN Raise(m, "IndexError")
         ELSE Ok(set_c(m, c(m, i.value), c(m, 0)), m.location_counter + 1)
    ELSE IF c_raises(m, 0) THEN Raise(m, "IndexError")
         ELSE Ok(set_c(m, i.value, c(m, 0)), m.location_counter + 1)

ADD(m, a) ==
    IF c_raises(m, 0) \/ v_raises(m, a) THEN Raise(m, "IndexError")
    ELSE Ok(set_c(m, 0, c(m, 0) + v(m, a)), m.location_counter + 1)

SUB(m, a) ==
    IF c_raises(m, 0) \/ v_raises(m, a) THEN Raise(m, "IndexError")
    ELSE Ok(set_c(m, 0, c(m, 0) - v(m, a)), m.location_counter + 1)

MULT(m, a) ==
    IF c_raises(m, 0) \/ v_raises(m, a) THEN Raise(m, "IndexError")
    ELSE Ok(set_c(m, 0, c(m, 0) * v(m, a)), m.location_counter + 1)

\* Python's // is floor division, as is TLA+'s \div
\* DIV skipping the instruction when the operand evaluates to 0
DIV_mut_skip(m, a) ==
    IF c_raises(m, 0) \/ v_raises(m, a) THEN Raise(m, "IndexError")
    ELSE IF v(m, a) = 0 THEN Ok(m, m.location_counter + 1)
    ELSE Ok(set_c(m, 0, c(m, 0) \div v(m, a)), m.location_counter + 1)

\* the mutant rounds the quotient toward zero
DIV_mut_trunc(m, a) ==
    IF c_raises(m, 0) \/ v_raises(m, a) THEN Raise(m, "IndexError")
    ELSE IF v(m, a) = 0 THEN Raise(m, "ZeroDivisionError")
    ELSE Ok(set_c(m, 0, IF (c(m, 0) < 0) = (v(m, a) < 0)
                        THEN Abs(c(m, 0)) \div Abs(v(m, a))
                        ELSE -(Abs(c(m, 0)) \div Abs(v(m, a)))),
            m.location_counter + 1)

DIV(m, a) ==
    IF c_raises(m, 0) \/ v_raises(m, a) THEN Raise(m, "IndexError")
    ELSE IF v(m, a) = 0 THEN Raise(m, "ZeroDivisionError")
    ELSE Ok(set_c(m, 0, c(m, 0) \div v(m, a)), m.location_counter + 1)

\* the try/except IndexError around input_tape[read_head]
ReadSpace(m) ==
    IF m.read_head < Len(m.input_tape)
    THEN m.input_tape[m.read_head + 1]
    ELSE 0

\* the legacy policy: reading past the end of the input tape raises ReadError
READ_mut_legacy(m, i) ==
    IF m.read_head >= Len(m.input_tape) THEN Raise(m, "ReadError")
    ELSE LET m1 == [m EXCEPT !.read_head = @ + 1]
         IN  IF i.flag = "indirect"
             THEN IF c_raises(m1, i.value) THEN Raise(m1, "IndexError")
                  ELSE Ok(set_c(m1, c(m1, i.value), m.input_tape[m.read_head + 1]),
                          m.location_counter + 1)
             ELSE Ok(set_c(m1, i.value, m.input_tape[m.read_head + 1]),
                     m.location_counter + 1)

READ(m, i) ==
    LET space == ReadSpace(m)
        m1 == [m EXCEPT !.read_head = @ + 1]
    IN  IF i.flag = "indirect"
        THEN IF c_raises(m1, i.value) THEN Raise(m1, "IndexError")
             ELSE Ok(set_c(m1, c(m1, i.value), space), m.location_counter + 1)
        ELSE Ok(set_c(m1, i.value, space), m.location_counter + 1)

\* the mutant writes at the front of the output tape
WRITE_mut_prepend(m, a) ==
    IF v_raises(m, a) THEN Raise(m, "IndexError")
    ELSE Ok([m EXCEPT !.output_tape = <<v(m, a)>> \o @], m.location_counter + 1)

WRITE(m, a) ==
    IF v_raises(m, a) THEN Raise(m, "IndexError")
    ELSE Ok([m EXCEPT !.output_tape = Append(@, v(m, a))], m.location_counter + 1)

JUMP(m, b) ==
    IF ~DictHas(m.program.jumptable, b) THEN Raise(m, "KeyError")
    ELSE Ok(m, DictGet(m.program.jumptable, b))

\* the mutant also jumps when c(0) = 0
JGTZ_mut_ge(m, b) ==
    IF c_raises(m, 0) THEN Raise(m, "IndexError")
    ELSE IF c(m, 0) >= 0
         THEN IF ~DictHas(m.program.jumptable, b) THEN Raise(m, "KeyError")
              ELSE Ok(m, DictGet(m.program.jumptable, b))
         ELSE Ok(m, m.location_counter + 1)

JGTZ(m, b) ==
    IF c_raises(m, 0) THEN Raise(m, "IndexError")
    ELSE IF c(m, 0) > 0
         THEN IF ~DictHas(m.program.jumptable, b) THEN Raise(m, "KeyError")
              ELSE Ok(m, DictGet(m.program.jumptable, b))
         ELSE Ok(m, m.location_counter + 1)

JZERO(m, b) ==
    IF c_raises(m, 0) THEN Raise(m, "IndexError")
    ELSE IF c(m, 0) = 0
         THEN IF ~DictHas(m.program.jumptable, b) THEN Raise(m, "KeyError")
              ELSE Ok(m, DictGet(m.program.jumptable, b))
         ELSE Ok(m, m.location_counter + 1)

HALT(m) == Ok([m EXCEPT !.halted = TRUE], m.location_counter)

dispatch(m, ins) ==
    IF m.halted THEN Raise(m, "HaltError")
    ELSE CASE ins.opcode = "HALT"  -> HALT(m)
           [] ins.opcode = "LOAD"  -> LOAD(m, ins.address)
           [] ins.opcode = "STORE" -> STORE(m, ins.address)
           [] ins.opcode = "ADD"   -> ADD(m, ins.address)
           [] ins.opcode = "SUB"   -> SUB(m, ins.address)
           [] ins.opcode = "MULT"  -> MULT(m, ins.address)
           [] ins.opcode = "DIV"   -> DIV(m, ins.address)
           [] ins.opcode = "READ"  -> READ(m, ins.address)
           [] ins.opcode = "WRITE" -> WRITE(m, ins.address)
           [] ins.opcode = "JUMP"  -> JUMP(m, ins.address)
           [] ins.opcode = "JGTZ"  -> JGTZ(m, ins.address)
           [] ins.opcode = "JZERO" -> JZERO(m, ins.address)

\* instructions[location_counter]: a negative index counts from the end
FetchRaises(m) ==
    LET n == Len(m.program.instructions)
    IN  m.location_counter >= n \/ m.location_counter < -n

Fetch(m) ==
    LET n == Len(m.program.instructions)
    IN  IF m.location_counter >= 0
        THEN m.program.instructions[m.location_counter + 1]
        ELSE m.program.instructions[n + m.location_counter + 1]

\* the mutant counts the call that a halted machine refuses
step_mut_refused(m) ==
    IF m.halted THEN Raise([m EXCEPT !.step_counter = @ + 1], "HaltError")
    ELSE IF FetchRaises(m) THEN Raise(m, "IndexError")
    ELSE LET o == dispatch(m, Fetch(m))
         IN  IF o.exc # "none" THEN o
             ELSE Ok([o.m EXCEPT !.location_counter = o.next,
                                 !.step_counter = @ + 1], o.next)

\* the mutant does not count the step that executes HALT
step_mut_halt(m) ==
    IF m.halted THEN Raise(m, "HaltError")
    ELSE IF FetchRaises(m) THEN Raise(m, "IndexError")
    ELSE LET o == dispatch(m, Fetch(m))
         IN  IF o.exc # "none" THEN o
             ELSE Ok([o.m EXCEPT !.location_counter = o.next,
                                 !.step_counter = IF o.m.halted THEN @ ELSE @ + 1], o.next)

\* step(): the returned m is the interpreter after the call, exc how it ended
step(m) ==
    IF m.halted THEN Raise(m, "HaltError")
    ELSE IF FetchRaises(m) THEN Raise(m, "IndexError")
    ELSE LET o == dispatch(m, Fetch(m))
         IN  IF o.exc # "none" THEN o
             ELSE Ok([o.m EXCEPT !.location_counter = o.next,
                                 !.step_counter = @ + 1], o.next)

\* run(): the loop test `while not self.halted`
run_loop_test_mut_once(m) == ~m.halted /\ m.step_counter < 1

run_loop_test(m) == ~m.halted


(***************************************************************************)
(* Callers of the interpreter: step() called directly, and run()'s loop    *)
(* `while not self.halted: self.step()` taken one iteration at a time.     *)
(***************************************************************************)
NoRam == [halted |-> FALSE]

NoCall == [call |-> "none", exc |-> "none", stepped |-> FALSE, step_exc |-> "none",
           halted_at_call |-> FALSE, pre |-> NoRam]

NoAst == [kind |-> "None"]

NoRef == [status |-> "none"]

NoCompiler == [result |-> [exc |-> "none"]]

CompIdle == ast = NoAst /\ compiler = NoCompiler /\ ref = NoRef

RamIdle == ram = NoRam /\ ctl = "idle" /\ last = NoCall

NoCodec == [stage |-> "none"]

NoStream == [stream |-> <<>>]

NoLog == [op |-> "none"]

NoParser == [stage |-> "none"]

LexIdle == bts = NoStream /\ btsLog = NoLog /\ parser = NoParser

\* the model explores register and tape values up to MaxVal
InBounds(m) ==
    /\ \A k \in DOMAIN m.memory_registers : Abs(m.memory_registers[k]) <= MaxVal
    /\ \A k \in 1..Len(m.output_tape) : Abs(m.output_tape[k]) <= MaxVal

\* the model explores MaxSteps steps and MaxReadHead reads per interpreter,
\* and MaxRunSteps steps of a compiled program
StepAllowed(m) ==
    \/ m.halted
    \/ ast = NoAst /\ m.step_counter < MaxSteps /\ m.read_head < MaxReadHead
    \/ ast # NoAst /\ m.step_counter < MaxRunSteps

\* the instruction the last step() dispatched, if it got that far
LastDispatched == last.stepped /\ ~last.pre.halted /\ ~FetchRaises(last.pre)

LastIns == Fetch(last.pre)

\* a direct call of step()
StepCall ==
    /\ ctl = "idle"
    /\ StepAllowed(ram)
    /\ LET o == step(ram)
       IN  /\ InBounds(o.m)
           /\ ram' = o.m
           /\ last' = [call |-> "step", exc |-> o.exc, stepped |-> TRUE, step_exc |-> o.exc,
                       halted_at_call |-> ram.halted, pre |-> ram]
    /\ UNCHANGED <<ctl, compVars, codec, lexVars>>

\* run() is entered
RunCall ==
    /\ ctl = "idle"
    /\ ctl' = "running"
    /\ last' = [call |-> "run", exc |-> "pending", stepped |-> FALSE, step_exc |-> "none",
                halted_at_call |-> ram.halted, pre |-> ram]
    /\ UNCHANGED <<ram, compVars, codec, lexVars>>

\* one iteration of run()'s loop; an exception of step() leaves run()
RunStep ==
    /\ ctl = "running"
    /\ run_loop_test(ram)
    /\ StepAllowed(ram)
    /\ LET o == step(ram)
       IN  /\ InBounds(o.m)
           /\ ram' = o.m
           /\ last' = [last EXCEPT !.exc = IF o.exc = "none" THEN "pending" ELSE o.exc,
                                   !.stepped = TRUE, !.step_exc = o.exc, !.pre = ram]
           /\ ctl' = IF o.exc = "none" THEN "running" ELSE "idle"
    /\ UNCHANGED <<compVars, codec, lexVars>>

\* the loop test fails: run() returns normally
RunReturn ==
    /\ ctl = "running"
    /\ ~run_loop_test(ram)
    /\ ctl' = "idle"
    /\ last' = [last EXCEPT !.exc = "none", !.stepped = FALSE, !.step_exc = "none"]
    /\ UNCHANGED <<ram, compVars, codec, lexVars>>

(***************************************************************************)
(* The interpreter on RAM programs of three instructions over a small      *)
(* instruction alphabet, labels a -> 0 and b -> 2, label z unresolved.     *)
(***************************************************************************)
LabelA == <<"a">>

LabelB == <<"b">>

LabelZ == <<"z">>

RamInstrs ==
    { Instruction("LOAD", Operand(2, "literal")),
      Instruction("LOAD", Operand(1, "direct")),
      Instruction("LOAD", Operand(1, "indirect")),
      Instruction("STORE", Operand(1, "direct")),
      Instruction("STORE", Operand(1, "indirect")),
      Instruction("STORE", Operand(0, "direct")),
      Instruction("ADD", Operand(1, "direct")),
      Instruction("SUB", Operand(3, "literal")),
      Instruction("MULT", Operand(-2, "literal")),
      Instruction("DIV", Operand(1, "direct")),
      Instruction("DIV", Operand(2, "literal")),
      Instruction("READ", Operand(1, "direct")),
      Instruction("READ", Operand(1, "indirect")),
      Instruction("WRITE", Operand(0, "direct")),
      Instruction("WRITE", Operand(1, "indirect")),
      Instruction("JUMP", JumpTarget(LabelA)),
      Instruction("JUMP", JumpTarget(LabelZ)),
      Instruction("JGTZ", JumpTarget(LabelB)),
      Instruction("JZERO", JumpTarget(LabelB)),
      Instruction("JGTZ", JumpTarget(LabelZ)),
      Instruction("JZERO", JumpTarget(LabelZ)),
      HaltInstruction }

RamPrograms == {<<i1, i2, i3>> : i1 \in RamInstrs, i2 \in RamInstrs, i3 \in RamInstrs}

RamJumptable == << [key |-> JumpTarget(LabelA), value |-> 0],
                   [key |-> JumpTarget(LabelB), value |-> 2] >>

RamTapes == {<<>>, <<1>>, <<-7, 2>>}

InitRAM ==
    /\ \E p \in RamPrograms, t \in RamTapes :
          ram = NewRAM(Program(p, RamJumptable), t)
    /\ ctl = "idle"
    /\ last = NoCall
    /\ CompIdle
    /\ codec = NoCodec
    /\ LexIdle

NextRAM == StepCall \/ RunCall \/ RunStep \/ RunReturn

SpecRAM == InitRAM /\ [][NextRAM]_vars


(***************************************************************************)
(* Properties of the interpreter, checked under SpecRAM.                   *)
(***************************************************************************)
RunReturned == last.call = "run" /\ ctl = "idle" /\ last.exc = "none"

\* C3: whenever run() has returned normally, halted is true and one further
\* step() raises HaltError.
C3_HaltTermination ==
    RunReturned => (ram.halted /\ step(ram).exc = "HaltError")

\* run() returned normally after executing at least two instructions
C3_Witness == RunReturned /\ ram.step_counter >= 2 /\ ~last.halted_at_call

\* C4: run() called on an interpreter whose halted flag is already true ends
\* with HaltError (it does not return normally).
C4_RunOnHaltedRaises ==
    (last.call = "run" /\ ctl = "idle" /\ last.halted_at_call)
        => last.exc = "HaltError"

\* the register READ writes: register i, or register c(i) for READ *i
ReadTarget(m, i) == IF i.flag = "indirect" THEN c(m, i.value) ELSE i.value

LastWasRead == LastDispatched /\ LastIns.opcode = "READ"

ReadPadEffect ==
    /\ last.step_exc = "none"
    /\ c(ram, ReadTarget(last.pre, LastIns.address)) =
          (IF last.pre.read_head >= Len(last.pre.input_tape)
           THEN 0
           ELSE last.pre.input_tape[last.pre.read_head + 1])
    /\ ram.read_head = last.pre.read_head + 1
    /\ ram.halted = last.pre.halted

SameExceptAccumulator(m1, m2) ==
    /\ (DOMAIN m1.memory_registers) \cup {0} = (DOMAIN m2.memory_registers) \cup {0}
    /\ \A k \in (DOMAIN m1.memory_registers) \ {0} :
          m1.memory_registers[k] = m2.memory_registers[k]
    /\ m1.input_tape = m2.input_tape
    /\ m1.read_head = m2.read_head
    /\ m1.output_tape = m2.output_tape
    /\ m1.halted = m2.halted

\* C7: STORE (direct or indirect, also STORE 0 and STORE *i with c(i) = 0)
\* leaves register 0 unchanged; LOAD, ADD, SUB, MULT and DIV write no register
\* other than register 0 and leave input tape, read_head, output tape and
\* halted unchanged.
C7_AccumulatorInvariance ==
    LastDispatched =>
        /\ LastIns.opcode = "STORE" => c(ram, 0) = c(last.pre, 0)
        /\ LastIns.opcode \in {"LOAD", "ADD", "SUB", "MULT", "DIV"}
              => SameExceptAccumulator(last.pre, ram)

\* STORE *i with c(i) = 0 executed with a non-zero accumulator
C7_Witness ==
    /\ LastDispatched
    /\ last.step_exc = "none"
    /\ LastIns = Instruction("STORE", Operand(1, "indirect"))
    /\ c(last.pre, 1) = 0
    /\ c(ram, 0) # 0


\* register i was never written
Unwritten(m, i) == i \notin DOMAIN m.memory_registers

\* evaluating ins on m reads a register that was never written
ReadsUnwritten(m, ins) ==
    \/ /\ ins.opcode \in {"LOAD", "ADD", "SUB", "MULT", "DIV", "WRITE"}
       /\ \/ ins.address.flag = "direct" /\ Unwritten(m, ins.address.value)
          \/ /\ ins.address.flag = "indirect"
             /\ \/ Unwritten(m, ins.address.value)
                \/ Unwritten(m, m.memory_registers[ins.address.value])
    \/ /\ ins.opcode \in {"STORE", "READ"}
       /\ ins.address.flag = "indirect"
       /\ Unwritten(m, ins.address.value)

\* C12: a step() whose instruction reads a register that was never written
\* (direct operand of LOAD/ADD/SUB/MULT/DIV/WRITE, pointer or pointed-to
\* register of an indirect operand, pointer register of STORE *i / READ *i)
\* raises IndexError, and no register receives a default value.
C12_UninitializedRead ==
    (LastDispatched /\ ReadsUnwritten(last.pre, LastIns))
        => /\ last.step_exc = "IndexError"
           /\ ram.memory_registers = last.pre.memory_registers

\* LOAD *1 executed when register 1 points at a register never written
C12_Witness ==
    /\ LastDispatched
    /\ LastIns = Instruction("LOAD", Operand(1, "indirect"))
    /\ ~Unwritten(last.pre, 1)
    /\ Unwritten(last.pre, last.pre.memory_registers[1])
    /\ last.step_exc = "IndexError"


\* DIV a is about to divide by an operand that evaluates to 0
DivByZero(m, ins) ==
    /\ ins.opcode = "DIV"
    /\ ~ReadsUnwritten(m, ins)
    /\ (CASE ins.address.flag = "literal" -> ins.address.value
          [] ins.address.flag = "direct" -> m.memory_registers[ins.address.value]
          [] ins.address.flag = "indirect" ->
                m.memory_registers[m.memory_registers[ins.address.value]]) = 0

\* ins is a jump that will be taken
JumpTaken(m, ins) ==
    \/ ins.opcode = "JUMP"
    \/ ins.opcode = "JGTZ" /\ m.memory_registers[0] > 0
    \/ ins.opcode = "JZERO" /\ m.memory_registers[0] = 0

\* a taken jump names a label that the jumptable does not hold
UnresolvedJump(m, ins) ==
    /\ JumpTaken(m, ins)
    /\ \A k \in 1..Len(m.program.jumptable) : m.program.jumptable[k].key # ins.address

\* location_counter is past the end of the instructions
FetchPastEnd(m) == m.location_counter >= Len(m.program.instructions)

\* the machine m is about to hit one of the three fatal conditions
Fatal(m) ==
    /\ ~m.halted
    /\ \/ FetchPastEnd(m)
       \/ /\ ~FetchPastEnd(m)
          /\ m.location_counter >= 0
          /\ LET ins == m.program.instructions[m.location_counter + 1]
             IN  DivByZero(m, ins) \/ UnresolvedJump(m, ins)

\* C13: a step() that meets division by zero, a taken jump to a label missing
\* from the jumptable, or a location_counter past the end of the instructions
\* raises; halted stays false, location_counter and step_counter do not move,
\* and a run() that made the step ends with the exception.
C13_FatalConditions ==
    (last.stepped /\ Fatal(last.pre))
        => /\ last.step_exc \in {"ZeroDivisionError", "KeyError", "IndexError"}
           /\ ~ram.halted
           /\ ram.location_counter = last.pre.location_counter
           /\ ram.step_counter = last.pre.step_counter
           /\ last.call = "run" => (ctl = "idle" /\ last.exc = last.step_exc)

\* run() ended by ZeroDivisionError at a DIV 1 with register 1 holding 0
C13_Witness ==
    /\ last.call = "run"
    /\ last.stepped
    /\ Fatal(last.pre)
    /\ LastIns = Instruction("DIV", Operand(1, "direct"))
    /\ last.step_exc = "ZeroDivisionError"
    /\ last.pre.step_counter >= 1


\* the last step() dispatched an instruction and returned normally
LastExecuted == LastDispatched /\ last.step_exc = "none"

\* the step left registers, tapes and read head as they were
DataUnchanged ==
    /\ ram.memory_registers = last.pre.memory_registers
    /\ ram.input_tape = last.pre.input_tape
    /\ ram.output_tape = last.pre.output_tape
    /\ ram.read_head = last.pre.read_head

\* where the label of the instruction just executed leads
LastTarget == DictGet(last.pre.program.jumptable, LastIns.address)

\* C24: a step() that executed JUMP b leaves location_counter = jumptable[b];
\* one that executed JGTZ b leaves jumptable[b] when c(0) > 0 and
\* location_counter + 1 otherwise; one that executed JZERO b leaves
\* jumptable[b] when c(0) = 0 and location_counter + 1 otherwise; one that
\* executed any other instruction but HALT leaves location_counter + 1; and
\* the three jumps change no register, tape or read_head
C24_JumpSemantics ==
    LastExecuted =>
        /\ LastIns.opcode = "JUMP" => ram.location_counter = LastTarget
        /\ LastIns.opcode = "JGTZ"
              => ram.location_counter =
                    IF c(last.pre, 0) > 0 THEN LastTarget
                    ELSE last.pre.location_counter + 1
        /\ LastIns.opcode = "JZERO"
              => ram.location_counter =
                    IF c(last.pre, 0) = 0 THEN LastTarget
                    ELSE last.pre.location_counter + 1
        /\ LastIns.opcode \notin {"JUMP", "JGTZ", "JZERO"} \cup {"HALT"}
              => ram.location_counter = last.pre.location_counter + 1
        /\ LastIns.opcode \in {"JUMP", "JGTZ", "JZERO"} => DataUnchanged

\* JGTZ b at address 0 with c(0) = 0 fell through to address 1 although b
\* leads to address 2
C24_Witness ==
    /\ LastExecuted
    /\ LastIns = Instruction("JGTZ", JumpTarget(LabelB))
    /\ last.pre.location_counter = 0
    /\ c(last.pre, 0) = 0
    /\ LastTarget = 2
    /\ ram.location_counter = 1


\* the transition is a step() call that returned normally: only StepCall and
\* RunStep leave last.stepped true
StepReturned == last'.stepped /\ last'.step_exc = "none"

\* C25: a fresh interpreter has step_counter = 0; a step() call that returns
\* normally adds exactly 1 to step_counter, and nothing else changes it (not a
\* step() that raises, not entering or leaving run()); the step() that
\* executes HALT is counted, sets halted and leaves location_counter as it was
C25_StepCounter ==
    /\ ram.step_counter = 0
    /\ [][/\ ram'.step_counter = ram.step_counter + (IF StepReturned THEN 1 ELSE 0)
          /\ StepReturned /\ Fetch(ram).opcode = "HALT"
                => /\ ram'.halted /\ ~ram.halted
                   /\ ram'.location_counter = ram.location_counter]_vars

\* HALT was the third instruction executed and was counted; a fourth step()
\* raised HaltError and left the count at 3
C25_Witness ==
    /\ ram.halted
    /\ ram.step_counter = 3
    /\ ram.location_counter = 2
    /\ last.call = "step" /\ last.stepped
    /\ last.step_exc = "HaltError"
    /\ last.pre.step_counter = 3


\* q is the floor of n / d: the largest integer whose product with d does not
\* pass n, counted from below for d > 0 and from above for d < 0
IsFloor(q, n, d) ==
    /\ d # 0
    /\ d > 0 => q * d <= n /\ n < (q + 1) * d
    /\ d < 0 => q * d >= n /\ n > (q + 1) * d

Dispatches(opcode) ==
    /\ last'.stepped
    /\ ~ram.halted /\ ~FetchRaises(ram)
    /\ Fetch(ram).opcode = opcode

IsPrefix(s, t) == Len(s) <= Len(t) /\ SubSeq(t, 1, Len(s)) = s

\* C32: in every transition the output tape keeps what it held and grows by
\* exactly one element when a WRITE executes and by none otherwise, the input
\* tape and the Program stay as they are, and read_head grows by exactly one
\* when a READ is dispatched and is unchanged otherwise
C32_TapesAppendOnly ==
    [][/\ ram'.program = ram.program
       /\ ram'.input_tape = ram.input_tape
       /\ IsPrefix(ram.output_tape, ram'.output_tape)
       /\ Len(ram'.output_tape) = Len(ram.output_tape)
             + (IF Dispatches("WRITE") /\ last'.step_exc = "none" THEN 1 ELSE 0)
       /\ ram'.read_head = ram.read_head + (IF Dispatches("READ") THEN 1 ELSE 0)]_vars

\* two writes of different values after a read
C32_Witness ==
    /\ ram.output_tape = <<0, 1>>
    /\ ram.read_head = 1
    /\ ram.input_tape = <<1>>
    /\ LastExecuted /\ LastIns.opcode = "WRITE"


\* the last call of step() raised
LastRaised == last.stepped /\ last.step_exc # "none"

\* the interpreter is as it was before the last call of step()
AsBefore ==
    /\ ram.memory_registers = last.pre.memory_registers
    /\ ram.read_head = last.pre.read_head
    /\ ram.output_tape = last.pre.output_tape
    /\ ram.location_counter = last.pre.location_counter
    /\ ram.step_counter = last.pre.step_counter
    /\ ram.halted = last.pre.halted

\* C35: whenever step() raises (uninitialized register, division by zero,
\* unresolved label, fetch past the end, HaltError), registers, read_head,
\* output tape, location_counter, step_counter and halted have the values
\* they had before the call, also for READ *i with register i uninitialized
C35_FailingStepAtomic == LastRaised => AsBefore


OpcodeNames == <<"LOAD", "STORE", "ADD", "SUB", "MULT", "DIV", "READ", "WRITE",
                 "JUMP", "JGTZ", "JZERO", "HALT">>

OpcodeText == << <<"L","O","A","D">>, <<"S","T","O","R","E">>, <<"A","D","D">>,
                 <<"S","U","B">>, <<"M","U","L","T">>, <<"D","I","V">>,
                 <<"R","E","A","D">>, <<"W","R","I","T","E">>, <<"J","U","M","P">>,
                 <<"J","G","T","Z">>, <<"J","Z","E","R","O">>, <<"H","A","L","T">> >>

\* opcode.value as text
OpcodeValue(opcode) ==
    OpcodeText[CHOOSE k \in 1..Len(OpcodeNames) : OpcodeNames[k] = opcode]

\* Opcode(text)
OpcodeOf(text) ==
    OpcodeNames[CHOOSE k \in 1..Len(OpcodeText) : OpcodeText[k] = text]

DigitChars == <<"0", "1", "2", "3", "4", "5", "6", "7", "8", "9">>

Digits == Range(DigitChars)

Letters == {"A","B","C","D","E","F","G","H","I","J","K","L","M","N","O","P","Q",
            "R","S","T","U","V","W","X","Y","Z","a","b","c","d","e","f","g","h",
            "i","j","k","l","m","n","o","p","q","r","s","t","u","v","w","x","y","z"}

\* \w
WordChars == Letters \cup Digits \cup {"_"}

\* \s
SpaceChars == {" ", "\n", "\t"}

RECURSIVE NatToChars(_)
NatToChars(n) ==
    IF n < 10 THEN <<DigitChars[n + 1]>>
    ELSE Append(NatToChars(n \div 10), DigitChars[(n % 10) + 1])

\* f"{value}" of an int
IntToChars(n) == IF n < 0 THEN <<"-">> \o NatToChars(-n) ELSE NatToChars(n)

DigitValue(ch) == (CHOOSE k \in 1..10 : DigitChars[k] = ch) - 1

RECURSIVE CharsToNat(_)
\* int(text) of a text of decimal digits
CharsToNat(text) ==
    IF Len(text) = 0 THEN 0
    ELSE 10 * CharsToNat(SubSeq(text, 1, Len(text) - 1)) + DigitValue(text[Len(text)])

RECURSIVE Spaces(_)
Spaces(n) == IF n <= 0 THEN <<>> ELSE <<" ">> \o Spaces(n - 1)

\* f"{text:<{width}}"
LJust(text, width) == text \o Spaces(width - Len(text))

RECURSIVE RStrip(_)
RStrip(text) ==
    IF Len(text) > 0 /\ text[Len(text)] \in SpaceChars
    THEN RStrip(SubSeq(text, 1, Len(text) - 1))
    ELSE text

Max(S) == CHOOSE x \in S : \A y \in S : y <= x

IsJumpTarget(address) == DOMAIN address = {"value"}

IsOperand(address) == DOMAIN address = {"value", "flag"}

\* jumplabels = {v: k for k, v in jumptable.items()}: the last key inserted
\* with a given value wins
JumpLabelIndex(jumptable, index) ==
    Max({k \in 1..Len(jumptable) : jumptable[k].value = index})

HasJumpLabel(jumptable, index) ==
    \E k \in 1..Len(jumptable) : jumptable[k].value = index

AddressText(inst) ==
    IF "address" \notin DOMAIN inst THEN <<>>
    ELSE IF IsJumpTarget(inst.address) THEN inst.address.value
    ELSE IF inst.address.flag = "literal" THEN <<"=">> \o IntToChars(inst.address.value)
    ELSE IF inst.address.flag = "indirect" THEN <<"*">> \o IntToChars(inst.address.value)
    ELSE IntToChars(inst.address.value)

SerializeLine(p, pad, index) ==
    LET inst == p.instructions[index + 1]
        label == IF HasJumpLabel(p.jumptable, index)
                 THEN p.jumptable[JumpLabelIndex(p.jumptable, index)].key.value \o <<":">>
                 ELSE <<>>
    IN  RStrip(LJust(label, pad) \o LJust(OpcodeValue(inst.opcode), 7) \o AddressText(inst))

RECURSIVE JoinLines(_, _, _)
\* "\n".join(lines) for the lines of instructions index .. end
JoinLines(p, pad, index) ==
    IF index >= Len(p.instructions) THEN <<>>
    ELSE IF index = Len(p.instructions) - 1 THEN SerializeLine(p, pad, index)
    ELSE SerializeLine(p, pad, index) \o <<"\n">> \o JoinLines(p, pad, index + 1)

\* Program.serialize
serialize(p) ==
    LET pad == IF Len(p.jumptable) > 0
               THEN Max({Len(p.jumptable[k].key.value) : k \in 1..Len(p.jumptable)}) + 3
               ELSE 0
    IN  JoinLines(p, pad, 0)


(***************************************************************************)
(* The lexer of daca/ram/parser.py: at each position the first alternative *)
(* of Tag that matches wins (whitespace, colon, equals, star,              *)
(* literal_integer \d+, keyword, literal_id \w+, error).  Whitespace tokens*)
(* are dropped; an error token makes the lexer raise ParseError when the   *)
(* parser pulls it, so the token sequence stops at an error token.         *)
(***************************************************************************)
Token(tag, value) == [tag |-> tag, value |-> value]

RECURSIVE RunEnd(_, _, _)
\* the end (exclusive, 1-based) of the longest run of characters of S at pos
RunEnd(text, pos, S) ==
    IF pos <= Len(text) /\ text[pos] \in S THEN RunEnd(text, pos + 1, S) ELSE pos

IsPrefixAt(text, pos, word) ==
    /\ pos + Len(word) - 1 <= Len(text)
    /\ SubSeq(text, pos, pos + Len(word) - 1) = word

\* the first opcode name, in declaration order, spelled at pos (0 if none)
KeywordAt(text, pos) ==
    LET S == {k \in 1..Len(OpcodeText) : IsPrefixAt(text, pos, OpcodeText[k])}
    IN  IF S = {} THEN 0 ELSE CHOOSE k \in S : \A l \in S : k <= l

RECURSIVE tokenize(_, _)
tokenize(text, pos) ==
    IF pos > Len(text) THEN <<>>
    ELSE LET ch == text[pos]
         IN  IF ch \in SpaceChars THEN tokenize(text, RunEnd(text, pos, SpaceChars))
             ELSE IF ch = ":" THEN <<Token("colon", <<ch>>)>> \o tokenize(text, pos + 1)
             ELSE IF ch = "=" THEN <<Token("equals", <<ch>>)>> \o tokenize(text, pos + 1)
             ELSE IF ch = "*" THEN <<Token("star", <<ch>>)>> \o tokenize(text, pos + 1)
             ELSE IF ch \in Digits
                  THEN LET e == RunEnd(text, pos, Digits)
                       IN  <<Token("literal_integer", SubSeq(text, pos, e - 1))>>
                               \o tokenize(text, e)
             ELSE IF KeywordAt(text, pos) # 0
                  THEN LET w == OpcodeText[KeywordAt(text, pos)]
                       IN  <<Token("keyword", w)>> \o tokenize(text, pos + Len(w))
             ELSE IF ch \in WordChars
                  THEN LET e == RunEnd(text, pos, WordChars)
                       IN  <<Token("literal_id", SubSeq(text, pos, e - 1))>>
                               \o tokenize(text, e)
             ELSE <<Token("error", <<ch>>)>>

(***************************************************************************)
(* The parser of daca/ram/parser.py.  ps is the parser's state: the tokens,*)
(* the number consumed, and the locals of _parse_token_stream.  next(ts)   *)
(* raises StopIteration and ts.peek(n) IndexError at the end of the        *)
(* tokens; both raise ParseError on reaching the lexer's error token.      *)
(***************************************************************************)
\* how next(ts) ends: "none", "StopIteration" or "ParseError"
NextExc(ps) ==
    IF ps.pos >= Len(ps.tokens) THEN "StopIteration"
    ELSE IF ps.tokens[ps.pos + 1].tag = "error" THEN "ParseError"
    ELSE "none"

NextTok(ps) == ps.tokens[ps.pos + 1]

Advance(ps) == [ps EXCEPT !.pos = @ + 1]

\* how ts.peek(n) ends: "none", "IndexError" or "ParseError"
PeekExc(ps, n) ==
    IF \E k \in 1..n : ps.pos + k <= Len(ps.tokens) /\ ps.tokens[ps.pos + k].tag = "error"
    THEN "ParseError"
    ELSE IF ps.pos + n > Len(ps.tokens) THEN "IndexError"
    ELSE "none"

PeekTok(ps, n) == ps.tokens[ps.pos + n]

PFail(ps, exc) == [ps |-> ps, exc |-> exc]

\* next(ts) taken as the integer operand: int(next(ts).value)
ParseIntOperand(ps, opcode, flag) ==
    IF NextExc(ps) # "none" THEN PFail(ps, NextExc(ps))
    ELSE IF NextTok(ps).tag # "literal_integer" THEN PFail(ps, "ValueError")
    ELSE [ps |-> Advance(ps), exc |-> "none",
          inst |-> Instruction(opcode, Operand(CharsToNat(NextTok(ps).value), flag))]

\* _parse_instruction taking the literal flag for STORE and READ as well
_parse_instruction_mut_literal(ps, tok) ==
    LET opcode == OpcodeOf(tok.value)
    IN  IF opcode \in {"JUMP", "JGTZ", "JZERO"}
        THEN [ps |-> Advance(ps), exc |-> "none",
              inst |-> Instruction(opcode, JumpTarget(NextTok(ps).value))]
        ELSE IF PeekTok(ps, 1).tag = "star"
             THEN ParseIntOperand(Advance(ps), opcode, "indirect")
             ELSE IF PeekTok(ps, 1).tag = "equals"
                  THEN ParseIntOperand(Advance(ps), opcode, "literal")
                  ELSE ParseIntOperand(ps, opcode, "direct")

\* _parse_instruction(tok, ts), called with tok consumed and ts.peek() known
\* to succeed
_parse_instruction(ps, tok) ==
    LET opcode == OpcodeOf(tok.value)
    IN  IF opcode \in {"JUMP", "JGTZ", "JZERO"}
        THEN [ps |-> Advance(ps), exc |-> "none",
              inst |-> Instruction(opcode, JumpTarget(NextTok(ps).value))]
        ELSE IF opcode \in {"STORE", "READ"}
        THEN IF PeekTok(ps, 1).tag = "star"
             THEN ParseIntOperand(Advance(ps), opcode, "indirect")
             ELSE IF PeekTok(ps, 1).tag = "equals"
                  THEN IF PeekExc(ps, 2) # "none" THEN PFail(ps, PeekExc(ps, 2))
                       ELSE PFail(ps, "ParseError")
                  ELSE ParseIntOperand(ps, opcode, "direct")
        ELSE IF opcode \in {"LOAD", "ADD", "SUB", "MULT", "DIV", "WRITE"}
        THEN IF PeekTok(ps, 1).tag = "star"
             THEN ParseIntOperand(Advance(ps), opcode, "indirect")
             ELSE IF PeekTok(ps, 1).tag = "equals"
                  THEN ParseIntOperand(Advance(ps), opcode, "literal")
                  ELSE ParseIntOperand(ps, opcode, "direct")
        ELSE PFail(ps, "ParseError")

PDone(ps, exc) ==
    [exc |-> exc, program |-> Program(ps.instructions, ps.jumptable)]

RECURSIVE ParseLoop(_)
\* the `while True` loop of _parse_token_stream with its except clause
ParseLoop(ps) ==
    IF NextExc(ps) = "StopIteration" THEN PDone(ps, "none")
    ELSE IF NextExc(ps) # "none" THEN PDone(ps, NextExc(ps))
    ELSE LET tok == NextTok(ps)
             ps1 == Advance(ps)
         IN  IF tok.tag = "keyword" /\ tok.value = OpcodeValue("HALT")
             THEN ParseLoop([ps1 EXCEPT !.instructions = Append(@, HaltInstruction),
                                        !.program_counter = @ + 1])
             ELSE IF PeekExc(ps1, 1) # "none" THEN PDone(ps1, PeekExc(ps1, 1))
             ELSE IF PeekTok(ps1, 1).tag = "colon"
             THEN ParseLoop([Advance(ps1) EXCEPT
                      !.jumptable = DictSet(@, JumpTarget(tok.value), ps1.program_counter)])
             ELSE IF tok.tag = "keyword"
             THEN LET r == _parse_instruction(ps1, tok)
                  IN  IF r.exc = "StopIteration" THEN PDone(r.ps, "none")
                      ELSE IF r.exc # "none" THEN PDone(r.ps, r.exc)
                      ELSE ParseLoop([r.ps EXCEPT !.instructions = Append(@, r.inst),
                                                  !.program_counter = @ + 1])
             ELSE PDone(ps1, "ParseError")

\* Parser._parse_token_stream over the tokens of the text
_parse_token_stream(tokens) ==
    ParseLoop([tokens |-> tokens, pos |-> 0, program_counter |-> 0,
               jumptable |-> <<>>, instructions |-> <<>>])

\* parse(text): [exc |-> "none", program |-> p] or [exc |-> e] when e is raised
parse(text) ==
    LET r == _parse_token_stream(tokenize(text, 1))
    IN  IF r.exc = "none" THEN r ELSE [exc |-> r.exc]


(***************************************************************************)
(* The codec at work: a Program is emitted with serialize, a text is parsed*)
(* with parse, and a parsed Program may be emitted again.  Texts are either*)
(* emitted or written by hand as up to MaxLexemes lexemes.                 *)
(***************************************************************************)
NoProgram == [instructions |-> <<>>]

LabelBB == <<"b", "b">>

CodecInstrs ==
    { Instruction("LOAD", Operand(1, "literal")),
      Instruction("MULT", Operand(-1, "literal")),
      Instruction("STORE", Operand(12, "indirect")),
      Instruction("READ", Operand(0, "direct")),
      Instruction("JUMP", JumpTarget(LabelA)),
      Instruction("JGTZ", JumpTarget(LabelBB)),
      HaltInstruction }

CodecBodies ==
    {<<>>} \cup {<<i1>> : i1 \in CodecInstrs}
           \cup {<<i1, i2>> : i1 \in CodecInstrs, i2 \in CodecInstrs}

\* jumptables over the labels a and bb, in either insertion order
CodecJumptables(n) ==
    {<<>>}
    \cup {<<[key |-> JumpTarget(l), value |-> i]>> : l \in {LabelA, LabelBB}, i \in 0..(n - 1)}
    \cup {<<[key |-> JumpTarget(l1), value |-> i], [key |-> JumpTarget(l2), value |-> j]>> :
            <<l1, l2>> \in {<<LabelA, LabelBB>>, <<LabelBB, LabelA>>},
            <<i, j>> \in (0..(n - 1)) \X (0..(n - 1))}

CodecPrograms ==
    UNION { {Program(b \o <<HaltInstruction>>, jt) : jt \in CodecJumptables(Len(b) + 1)} :
            b \in CodecBodies }

Lexemes ==
    { <<"L","O","A","D">>, <<"S","T","O","R","E">>, <<"J","U","M","P">>,
      <<"H","A","L","T">>, <<"=">>, <<"*">>, <<"1">>, <<"a">>, <<":">>, <<"-">> }

RECURSIVE LexemeTexts(_)
\* the texts of exactly n lexemes, separated by single spaces
LexemeTexts(n) ==
    IF n = 0 THEN {<<>>}
    ELSE IF n = 1 THEN Lexemes
    ELSE {t \o <<" ">> \o l : t \in LexemeTexts(n - 1), l \in Lexemes}

SourceTexts == UNION {LexemeTexts(n) : n \in 0..MaxLexemes}

InitCodec ==
    /\ \/ \E p \in CodecPrograms :
             codec = [stage |-> "program", program |-> p]
       \/ \E t \in SourceTexts :
             codec = [stage |-> "text", program |-> NoProgram, emitted |-> FALSE,
                      text |-> t]
    /\ RamIdle
    /\ CompIdle
    /\ LexIdle

\* text = program.serialize()
Serialize ==
    /\ codec.stage = "program"
    /\ codec' = [stage |-> "text", program |-> codec.program, emitted |-> TRUE,
                 text |-> serialize(codec.program)]
    /\ UNCHANGED <<ramVars, compVars, lexVars>>

\* result = parse(text)
Parse ==
    /\ codec.stage = "text"
    /\ codec' = [stage |-> "parsed", program |-> codec.program,
                 emitted |-> codec.emitted, text |-> codec.text,
                 result |-> parse(codec.text)]
    /\ UNCHANGED <<ramVars, compVars, lexVars>>

\* the parsed Program is the next Program to emit
Reserialize ==
    /\ codec.stage = "parsed"
    /\ codec.result.exc = "none"
    /\ codec' = [stage |-> "program", program |-> codec.result.program]
    /\ UNCHANGED <<ramVars, compVars, lexVars>>

NextCodec == Serialize \/ Parse \/ Reserialize

SpecCodec == InitCodec /\ [][NextCodec]_vars

(***************************************************************************)
(* Properties of the codec, checked under SpecCodec.                       *)
(***************************************************************************)
JumpOpcodes == {"JUMP", "JGTZ", "JZERO"}

\* the data-model invariants of a Program
JumpsResolved(p) ==
    \A k \in 1..Len(p.instructions) :
        p.instructions[k].opcode \in JumpOpcodes
            => DictHas(p.jumptable, p.instructions[k].address)

JumptableInRange(p) ==
    \A k \in 1..Len(p.jumptable) :
        0 <= p.jumptable[k].value /\ p.jumptable[k].value < Len(p.instructions)

WellFormed(p) == JumpsResolved(p) /\ JumptableInRange(p)

\* Program.__eq__: same instructions, same jumptable as a mapping
ProgramEq(p1, p2) ==
    p1.instructions = p2.instructions /\ DictEq(p1.jumptable, p2.jumptable)

Parsed == codec.stage = "parsed" /\ codec.result.exc = "none"

\* C8: for every well-formed Program p, parse(p.serialize()) = p: the
\* re-parsed program has the same instructions and the same jumptable.
C8_RoundTrip ==
    (codec.stage = "parsed" /\ codec.emitted /\ WellFormed(codec.program))
        => (codec.result.exc = "none" /\ ProgramEq(codec.result.program, codec.program))

\* C9: in every Program returned by the RAM parser, the JumpTarget of every
\* JUMP, JGTZ and JZERO is a key of the jumptable.
C9_JumpResolution == Parsed => JumpsResolved(codec.result.program)

\* C10: in every Program returned by the RAM parser, every jumptable value v
\* satisfies 0 <= v < len(instructions), also for a label after the last
\* instruction.
C10_JumptableInRange == Parsed => JumptableInRange(codec.result.program)


AddressOpcodeText == {OpcodeValue(o) : o \in Opcode \ {"HALT"}}

LiteralOpcodeText ==
    {OpcodeValue(o) : o \in {"LOAD", "ADD", "SUB", "MULT", "DIV", "WRITE"}}

StoreReadText == {OpcodeValue(o) : o \in {"STORE", "READ"}}

IsKeywordOf(tok, S) == tok.tag = "keyword" /\ tok.value \in S

\* the tokens end right after an opcode that requires an address, or right
\* after that opcode and an operand flag
IncompleteTail(toks) ==
    LET n == Len(toks)
    IN  \/ n >= 1 /\ IsKeywordOf(toks[n], AddressOpcodeText)
        \/ /\ n >= 2
           /\ IsKeywordOf(toks[n - 1], AddressOpcodeText)
           /\ toks[n].tag \in {"star", "equals"}

\* the tokens before position i are whole instructions and labels, so that an
\* opcode at position i starts an instruction
InstructionAt(toks, i) ==
    /\ i \in 1..Len(toks)
    /\ toks[i].tag = "keyword"
    /\ LET pre == SubSeq(toks, 1, i - 1)
       IN  _parse_token_stream(pre).exc = "none" /\ ~IncompleteTail(pre)

\* the text ends right after an opcode (and flag) that starts an instruction
EndsInOpcode(text) ==
    LET toks == tokenize(text, 1)
        n == Len(toks)
    IN  /\ IncompleteTail(toks)
        /\ \/ InstructionAt(toks, n) /\ toks[n].value # OpcodeValue("HALT")
           \/ n >= 2 /\ toks[n].tag # "keyword" /\ InstructionAt(toks, n - 1)

\* C14: parsing a text that ends right after an opcode requiring an address
\* (LOAD, JUMP, STORE *, LOAD =) raises ParseError; no Program is returned.
C14_EndOfInputParseError ==
    (codec.stage = "parsed" /\ EndsInOpcode(codec.text))
        => codec.result.exc = "ParseError"

\* a STORE or READ at position i whose operand carries the literal flag
StoreLiteralAt(toks, i) ==
    /\ InstructionAt(toks, i)
    /\ toks[i].value \in StoreReadText
    /\ i + 2 <= Len(toks)
    /\ toks[i + 1].tag = "equals"

\* a LOAD, ADD, SUB, MULT, DIV or WRITE at position i with operand =integer
LiteralOperandAt(toks, i) ==
    /\ InstructionAt(toks, i)
    /\ toks[i].value \in LiteralOpcodeText
    /\ i + 2 <= Len(toks)
    /\ toks[i + 1].tag = "equals"
    /\ toks[i + 2].tag = "literal_integer"

\* parsing up to and including the operand at i + 2 returns a Program whose
\* last instruction has the literal operand
LiteralAccepted(toks, i) ==
    LET r == _parse_token_stream(SubSeq(toks, 1, i + 2))
    IN  /\ r.exc = "none"
        /\ Len(r.program.instructions) >= 1
        /\ r.program.instructions[Len(r.program.instructions)] =
              Instruction(OpcodeOf(toks[i].value),
                          Operand(CharsToNat(toks[i + 2].value), "literal"))

\* C15: a text holding, anywhere an instruction may start, STORE or READ with
\* an operand flagged `=` makes parse raise ParseError (no Program); the same
\* flag on LOAD, ADD, SUB, MULT, DIV and WRITE gives a literal operand.
C15_StoreReadLiteral ==
    codec.stage = "parsed" =>
        LET toks == tokenize(codec.text, 1)
        IN  \A i \in 1..Len(toks) :
               /\ StoreLiteralAt(toks, i) => codec.result.exc = "ParseError"
               /\ LiteralOperandAt(toks, i) => LiteralAccepted(toks, i)

\* STORE =1 after a HALT was parsed and refused
C15_Witness ==
    /\ codec.stage = "parsed"
    /\ StoreLiteralAt(tokenize(codec.text, 1), 2)
    /\ tokenize(codec.text, 1)[1].value = OpcodeValue("HALT")
    /\ codec.result.exc = "ParseError"


(***************************************************************************)
(* Pidgin ALGOL AST (daca/pidgin_algol/ast.py).  A node is a record whose  *)
(* field kind names its class; an absent else_body is NoAst.               *)
(***************************************************************************)
LiteralExpression(value) == [kind |-> "Literal", value |-> value]

VariableExpression(name) == [kind |-> "Variable", name |-> name]

UnaryNegationExpression(exp) == [kind |-> "Negation", exp |-> exp]

BinaryExpression(left, operator, right) ==
    [kind |-> "Binary", left |-> left, operator |-> operator, right |-> right]

BlockStatement(statements) == [kind |-> "Block", statements |-> statements]

ReadStatement(variable) == [kind |-> "Read", variable |-> variable]

WriteStatement(value) == [kind |-> "Write", value |-> value]

IfStatement(condition, true_body, else_body) ==
    [kind |-> "If", condition |-> condition, true_body |-> true_body,
     else_body |-> else_body]

WhileStatement(condition, body) ==
    [kind |-> "While", condition |-> condition, body |-> body]

AssignmentStatement(variable, expression) ==
    [kind |-> "Assignment", variable |-> variable, expression |-> expression]

\* isinstance(exp, UnaryExpression)
IsUnaryExpression(exp) == exp.kind \in {"Literal", "Variable", "Negation"}

(***************************************************************************)
(* The compiler (daca/pidgin_algol/compiler.py).  cs is the RamCompiler    *)
(* instance; every compile_* operator returns the instance after the call, *)
(* the instructions it returns and exc ("CompileError" when it raises).    *)
(***************************************************************************)
is_comparison_operator(op) ==
    op \in {"equals", "not_equals", "lt", "le", "gt", "ge"}

is_arithmetic_operator(op) == op \in {"plus", "minus", "mult", "div"}

is_zero(exp) == exp.kind = "Literal" /\ exp.value = 0

ConditionAction(with_mult, jump_to_body, jumper) ==
    [with_mult |-> with_mult, jump_to_body |-> jump_to_body, jumper |-> jumper]

\* the mutant swaps the rows of < and >=
_comp_action_mut_lt(op) ==
    CASE op = "equals"     -> ConditionAction(FALSE, TRUE, "JZERO")
      [] op = "not_equals" -> ConditionAction(FALSE, FALSE, "JZERO")
      [] op = "lt"         -> ConditionAction(TRUE, FALSE, "JGTZ")
      [] op = "le"         -> ConditionAction(FALSE, FALSE, "JGTZ")
      [] op = "gt"         -> ConditionAction(FALSE, TRUE, "JGTZ")
      [] op = "ge"         -> ConditionAction(TRUE, TRUE, "JGTZ")

\* the table filled in by __post_init__
_comp_action(op) ==
    CASE op = "equals"     -> ConditionAction(FALSE, TRUE, "JZERO")
      [] op = "not_equals" -> ConditionAction(FALSE, FALSE, "JZERO")
      [] op = "lt"         -> ConditionAction(TRUE, TRUE, "JGTZ")
      [] op = "le"         -> ConditionAction(FALSE, FALSE, "JGTZ")
      [] op = "gt"         -> ConditionAction(FALSE, TRUE, "JGTZ")
      [] op = "ge"         -> ConditionAction(TRUE, FALSE, "JGTZ")

_pos_one == Operand(1, "literal")

_zero == Operand(0, "literal")

_mult_neg_one == Instruction("MULT", Operand(-1, "literal"))

EmptyMap == [k \in {} |-> 0]

MapSet(f, key, val) == [k \in (DOMAIN f) \cup {key} |-> IF k = key THEN val ELSE f[k]]

\* RamCompiler(): the dataclass defaults
NewCompiler ==
    [_var_map |-> EmptyMap, _jumptable |-> <<>>, _reverse_jumptable |-> EmptyMap,
     _pc |-> 0, _if_counter |-> 0, _while_counter |-> 0, _comp_counter |-> 0]

CR(cs, insts) == [cs |-> cs, insts |-> insts, exc |-> "none"]

\* raise CompileError(message=...): the message up to its first placeholder
CErrWith(cs, message) ==
    [cs |-> cs, insts |-> <<>>, exc |-> "CompileError", message |-> message]

\* raise CompileError(value=...): BaseDacaError makes the message "Unexpected {value}"
CErr(cs) == CErrWith(cs, "Unexpected ")

\* the CompileError raised in a callee passes through the caller
Reraise(r) == CErrWith(r.cs, r.message)

AddPc(cs, n) == [cs EXCEPT !._pc = @ + n]

\* the mutant numbers a new variable after the variables alone, leaving the
\* temporaries out of the count
BindVariable_mut_variables(cs, name) ==
    IF name \in DOMAIN cs._var_map THEN cs
    ELSE [cs EXCEPT !._var_map =
             MapSet(@, name, Cardinality(DOMAIN @ \cap {"x", "y", "z"}) + 1)]

\* if name not in self._var_map: self._var_map[name] = len(self._var_map) + 1
BindVariable(cs, name) ==
    IF name \in DOMAIN cs._var_map THEN cs
    ELSE [cs EXCEPT !._var_map = MapSet(@, name, Cardinality(DOMAIN @) + 1)]

\* f"{prefix}{counter}" as label text
LabelName(prefix, counter) == prefix \o NatToChars(counter)

\* the mutant installs the suggested label whether or not the address
\* already carries one
_update_jumptable_mut_install(cs, tgt) ==
    [cs |-> [cs EXCEPT !._jumptable = DictSet(@, JumpTarget(tgt), cs._pc),
                       !._reverse_jumptable = MapSet(@, cs._pc, JumpTarget(tgt))],
     jt |-> JumpTarget(tgt)]

\* the mutant hands out the suggested label without installing it when the
\* address already carries one
_update_jumptable_mut_fresh(cs, tgt) ==
    IF cs._pc \in DOMAIN cs._reverse_jumptable
    THEN [cs |-> cs, jt |-> JumpTarget(tgt)]
    ELSE [cs |-> [cs EXCEPT !._jumptable = DictSet(@, JumpTarget(tgt), cs._pc),
                            !._reverse_jumptable = MapSet(@, cs._pc, JumpTarget(tgt))],
          jt |-> JumpTarget(tgt)]

\* _update_jumptable(tgt): the compiler after the call and the label returned
_update_jumptable(cs, tgt) ==
    IF cs._pc \in DOMAIN cs._reverse_jumptable
    THEN [cs |-> cs, jt |-> cs._reverse_jumptable[cs._pc]]
    ELSE [cs |-> [cs EXCEPT !._jumptable = DictSet(@, JumpTarget(tgt), cs._pc),
                            !._reverse_jumptable = MapSet(@, cs._pc, JumpTarget(tgt))],
          jt |-> JumpTarget(tgt)]

compile_read_statement(cs, s) ==
    LET cs1 == BindVariable(cs, s.variable.name)
    IN  CR(cs1, <<Instruction("READ", Operand(cs1._var_map[s.variable.name], "direct"))>>)

compile_write_statement(cs, s) ==
    IF s.value.kind = "Literal"
    THEN CR(cs, <<Instruction("WRITE", Operand(s.value.value, "literal"))>>)
    ELSE IF s.value.kind = "Variable"
    THEN LET cs1 == BindVariable(cs, s.value.name)
         IN  CR(cs1, <<Instruction("WRITE", Operand(cs1._var_map[s.value.name], "direct"))>>)
    ELSE CErr(cs)

compile_literal_expression(cs, exp) ==
    CR(AddPc(cs, 1), <<Instruction("LOAD", Operand(exp.value, "literal"))>>)

compile_variable_expression(cs, exp) ==
    LET cs1 == BindVariable(cs, exp.name)
    IN  CR(AddPc(cs1, 1), <<Instruction("LOAD", Operand(cs1._var_map[exp.name], "direct"))>>)

\* the mutant loads the two truth values the other way round
_compile_comparison_expression_mut_swap(cs, exp, address) ==
    LET action == _comp_action(exp.operator)
        sub == IF ~is_zero(exp.right) THEN <<Instruction("SUB", address)>> ELSE <<>>
        mult == IF action.with_mult THEN <<_mult_neg_one>> ELSE <<>>
        load_1 == IF action.jump_to_body THEN _pos_one ELSE _zero
        load_2 == IF action.jump_to_body THEN _zero ELSE _pos_one
        Emit(jt1, u2) ==
            CR(u2.cs, sub \o mult \o << Instruction(action.jumper, jt1),
                                        Instruction("LOAD", load_1),
                                        Instruction("JUMP", u2.jt),
                                        Instruction("LOAD", load_2) >>)
        EndCmp(cc, u1) ==
            Emit(u1.jt, _update_jumptable(AddPc(u1.cs, 1),
                                          LabelName(<<"e","n","d","c","m","p">>, cc)))
        Cmp(cs0) ==
            EndCmp(cs0._comp_counter,
                   _update_jumptable(AddPc(cs0, Len(sub) + Len(mult) + 3),
                                     LabelName(<<"c","m","p">>, cs0._comp_counter)))
    IN  Cmp([cs EXCEPT !._comp_counter = @ + 1])

_compile_comparison_expression(cs, exp, address) ==
    LET action == _comp_action(exp.operator)
        sub == IF ~is_zero(exp.right) THEN <<Instruction("SUB", address)>> ELSE <<>>
        mult == IF action.with_mult THEN <<_mult_neg_one>> ELSE <<>>
        load_1 == IF action.jump_to_body THEN _zero ELSE _pos_one
        load_2 == IF action.jump_to_body THEN _pos_one ELSE _zero
        Emit(jt1, u2) ==
            CR(u2.cs, sub \o mult \o << Instruction(action.jumper, jt1),
                                        Instruction("LOAD", load_1),
                                        Instruction("JUMP", u2.jt),
                                        Instruction("LOAD", load_2) >>)
        EndCmp(cc, u1) ==
            Emit(u1.jt, _update_jumptable(AddPc(u1.cs, 1),
                                          LabelName(<<"e","n","d","c","m","p">>, cc)))
        Cmp(cs0) ==
            EndCmp(cs0._comp_counter,
                   _update_jumptable(AddPc(cs0, Len(sub) + Len(mult) + 3),
                                     LabelName(<<"c","m","p">>, cs0._comp_counter)))
    IN  Cmp([cs EXCEPT !._comp_counter = @ + 1])

\* the mutant counts the ADD that `+ 0` leaves out
_compile_arithmetic_expression_mut_count(cs, exp, address) ==
    LET op == exp.operator
        is_zero_flag == is_zero(exp.right)
    IN  IF op = "plus"
        THEN IF ~is_zero_flag THEN CR(AddPc(cs, 1), <<Instruction("ADD", address)>>)
             ELSE CR(AddPc(cs, 1), <<>>)
        ELSE IF op = "minus"
        THEN IF ~is_zero_flag THEN CR(AddPc(cs, 1), <<Instruction("SUB", address)>>)
             ELSE CR(cs, <<>>)
        ELSE IF op = "mult"
        THEN IF is_zero_flag
             THEN CR(AddPc(cs, 1), <<Instruction("LOAD", Operand(0, "literal"))>>)
             ELSE CR(AddPc(cs, 1), <<Instruction("MULT", address)>>)
        ELSE IF op = "div"
        THEN IF is_zero_flag THEN CErrWith(cs, "Attempt to divide by literal 0 in ")
             ELSE CR(AddPc(cs, 1), <<Instruction("DIV", address)>>)
        ELSE CErrWith(cs, "Invalid binary operator ")

\* the mutant compiles a division by the literal 0 like any other division
_compile_arithmetic_expression_mut_div(cs, exp, address) ==
    LET op == exp.operator
        is_zero_flag == is_zero(exp.right)
    IN  IF op = "plus"
        THEN IF ~is_zero_flag THEN CR(AddPc(cs, 1), <<Instruction("ADD", address)>>)
             ELSE CR(cs, <<>>)
        ELSE IF op = "minus"
        THEN IF ~is_zero_flag THEN CR(AddPc(cs, 1), <<Instruction("SUB", address)>>)
             ELSE CR(cs, <<>>)
        ELSE IF op = "mult"
        THEN IF is_zero_flag
             THEN CR(AddPc(cs, 1), <<Instruction("LOAD", Operand(0, "literal"))>>)
             ELSE CR(AddPc(cs, 1), <<Instruction("MULT", address)>>)
        ELSE IF op = "div"
        THEN CR(AddPc(cs, 1), <<Instruction("DIV", address)>>)
        ELSE CErrWith(cs, "Invalid binary operator ")

_compile_arithmetic_expression(cs, exp, address) ==
    LET op == exp.operator
        is_zero_flag == is_zero(exp.right)
    IN  IF op = "plus"
        THEN IF ~is_zero_flag THEN CR(AddPc(cs, 1), <<Instruction("ADD", address)>>)
             ELSE CR(cs, <<>>)
        ELSE IF op = "minus"
        THEN IF ~is_zero_flag THEN CR(AddPc(cs, 1), <<Instruction("SUB", address)>>)
             ELSE CR(cs, <<>>)
        ELSE IF op = "mult"
        THEN IF is_zero_flag
             THEN CR(AddPc(cs, 1), <<Instruction("LOAD", Operand(0, "literal"))>>)
             ELSE CR(AddPc(cs, 1), <<Instruction("MULT", address)>>)
        ELSE IF op = "div"
        THEN IF is_zero_flag THEN CErrWith(cs, "Attempt to divide by literal 0 in ")
             ELSE CR(AddPc(cs, 1), <<Instruction("DIV", address)>>)
        ELSE CErrWith(cs, "Invalid binary operator ")

\* the key under which a temporary register is recorded in _var_map
ReserveName(register) == "<<RESERVE REGISTER " \o ToString(register)

RECURSIVE compile_expression(_, _)
RECURSIVE compile_binary_expression(_, _)
RECURSIVE compile_unary_negation_expression(_, _)

compile_unary_expression(cs, exp) ==
    IF exp.kind = "Literal" THEN compile_literal_expression(cs, exp)
    ELSE IF exp.kind = "Variable" THEN compile_variable_expression(cs, exp)
    ELSE IF exp.kind = "Negation" THEN compile_unary_negation_expression(cs, exp)
    ELSE CErr(cs)

compile_unary_negation_expression(cs, exp) ==
    LET Negate(r) ==
            IF r.exc # "none" THEN r
            ELSE CR(AddPc(r.cs, 1), Append(r.insts, _mult_neg_one))
    IN  IF exp.exp.kind = "Literal"
        THEN CR(AddPc(cs, 1), <<Instruction("LOAD", Operand(-exp.exp.value, "literal"))>>)
        ELSE Negate(compile_expression(cs, exp.exp))

compile_expression(cs, exp) ==
    IF IsUnaryExpression(exp) THEN compile_unary_expression(cs, exp)
    ELSE IF exp.kind = "Binary" THEN compile_binary_expression(cs, exp)
    ELSE CErr(cs)

\* the mutant takes the last register handed out as the temporary
CompileRight_mut_register(cs, exp) ==
    LET Store(r, register) ==
            IF r.exc # "none"
            THEN [cs |-> r.cs, insts |-> <<>>, exc |-> r.exc, message |-> r.message,
                  address |-> _zero]
            ELSE [cs |-> AddPc([r.cs EXCEPT !._var_map =
                                   MapSet(@, ReserveName(register), register)], 1),
                  insts |-> Append(r.insts, Instruction("STORE", Operand(register, "direct"))),
                  exc |-> "none",
                  address |-> Operand(register, "direct")]
        Reserve(r) == Store(r, Cardinality(DOMAIN r.cs._var_map))
        Bound(cs1) ==
            [cs |-> cs1, insts |-> <<>>, exc |-> "none",
             address |-> Operand(cs1._var_map[exp.right.name], "direct")]
    IN  IF exp.right.kind = "Literal"
        THEN [cs |-> cs, insts |-> <<>>, exc |-> "none",
              address |-> Operand(exp.right.value, "literal")]
        ELSE IF exp.right.kind = "Variable"
        THEN Bound(BindVariable(cs, exp.right.name))
        ELSE Reserve(compile_expression(cs, exp.right))

\* the mutant keeps one register for all temporaries: the first one reserved
\* is taken again by every later complex right operand
CompileRight_mut_shared(cs, exp) ==
    LET Store(r, register) ==
            IF r.exc # "none"
            THEN [cs |-> r.cs, insts |-> <<>>, exc |-> r.exc, message |-> r.message,
                  address |-> _zero]
            ELSE [cs |-> AddPc([r.cs EXCEPT !._var_map =
                                   MapSet(@, ReserveName(register), register)], 1),
                  insts |-> Append(r.insts, Instruction("STORE", Operand(register, "direct"))),
                  exc |-> "none",
                  address |-> Operand(register, "direct")]
        Reserved(r) == DOMAIN r.cs._var_map \ {"x", "y", "z"}
        Reserve(r) ==
            Store(r, IF Reserved(r) # {}
                     THEN r.cs._var_map[CHOOSE n \in Reserved(r) : TRUE]
                     ELSE Cardinality(DOMAIN r.cs._var_map) + 1)
        Bound(cs1) ==
            [cs |-> cs1, insts |-> <<>>, exc |-> "none",
             address |-> Operand(cs1._var_map[exp.right.name], "direct")]
    IN  IF exp.right.kind = "Literal"
        THEN [cs |-> cs, insts |-> <<>>, exc |-> "none",
              address |-> Operand(exp.right.value, "literal")]
        ELSE IF exp.right.kind = "Variable"
        THEN Bound(BindVariable(cs, exp.right.name))
        ELSE Reserve(compile_expression(cs, exp.right))

\* the right operand of a binary expression: the compiler after it, the
\* instructions that compute it, and the address the operator will use
CompileRight(cs, exp) ==
    LET Store(r, register) ==
            IF r.exc # "none"
            THEN [cs |-> r.cs, insts |-> <<>>, exc |-> r.exc, message |-> r.message,
                  address |-> _zero]
            ELSE [cs |-> AddPc([r.cs EXCEPT !._var_map =
                                   MapSet(@, ReserveName(register), register)], 1),
                  insts |-> Append(r.insts, Instruction("STORE", Operand(register, "direct"))),
                  exc |-> "none",
                  address |-> Operand(register, "direct")]
        Reserve(r) == Store(r, Cardinality(DOMAIN r.cs._var_map) + 1)
        Bound(cs1) ==
            [cs |-> cs1, insts |-> <<>>, exc |-> "none",
             address |-> Operand(cs1._var_map[exp.right.name], "direct")]
    IN  IF exp.right.kind = "Literal"
        THEN [cs |-> cs, insts |-> <<>>, exc |-> "none",
              address |-> Operand(exp.right.value, "literal")]
        ELSE IF exp.right.kind = "Variable"
        THEN Bound(BindVariable(cs, exp.right.name))
        ELSE Reserve(compile_expression(cs, exp.right))

compile_binary_expression(cs, exp) ==
    LET Join(rhs, lhs, o) ==
            IF o.exc # "none" THEN o
            ELSE CR(o.cs, rhs.insts \o lhs.insts \o o.insts)
        Apply(rhs, lhs) ==
            IF lhs.exc # "none" THEN lhs
            ELSE Join(rhs, lhs,
                      IF is_comparison_operator(exp.operator)
                      THEN _compile_comparison_expression(lhs.cs, exp, rhs.address)
                      ELSE IF is_arithmetic_operator(exp.operator)
                      THEN _compile_arithmetic_expression(lhs.cs, exp, rhs.address)
                      ELSE CErrWith(lhs.cs, "Invalid binary operator "))
        Left(rhs) ==
            IF rhs.exc # "none" THEN Reraise(rhs)
            ELSE Apply(rhs, compile_expression(rhs.cs, exp.left))
    IN  Left(CompileRight(cs, exp))

\* the mutant takes a condition that is not a comparison as condition > 0
_build_condition_instructions_mut_gt(cs, condition, body_label) ==
    LET comparison == condition.kind = "Binary" /\ is_comparison_operator(condition.operator)
        action == IF comparison THEN _comp_action(condition.operator)
                  ELSE _comp_action("gt")
        mult == IF action.with_mult THEN <<_mult_neg_one>> ELSE <<>>
        JumpToBody(c0, u) ==
            [cs |-> u.cs, exc |-> "none", action |-> action,
             insts |-> c0.insts \o mult \o <<Instruction(action.jumper, u.jt)>>]
        Jump(c0) ==
            IF c0.exc # "none"
            THEN [cs |-> c0.cs, insts |-> <<>>, exc |-> c0.exc, message |-> c0.message,
                  action |-> action]
            ELSE IF action.jump_to_body
            THEN JumpToBody(c0, _update_jumptable(AddPc(c0.cs, Len(mult) + 2), body_label))
            ELSE [cs |-> AddPc(c0.cs, Len(mult) + 1), exc |-> "none", action |-> action,
                  insts |-> c0.insts \o mult]
    IN  Jump(IF comparison
             THEN IF is_zero(condition.right)
                  THEN compile_expression(cs, condition.left)
                  ELSE compile_expression(cs, [condition EXCEPT !.operator = "minus"])
             ELSE compile_expression(cs, condition))

\* _build_condition_instructions: also returns the ConditionAction
_build_condition_instructions(cs, condition, body_label) ==
    LET comparison == condition.kind = "Binary" /\ is_comparison_operator(condition.operator)
        action == IF comparison THEN _comp_action(condition.operator)
                  ELSE _comp_action("not_equals")
        mult == IF action.with_mult THEN <<_mult_neg_one>> ELSE <<>>
        JumpToBody(c0, u) ==
            [cs |-> u.cs, exc |-> "none", action |-> action,
             insts |-> c0.insts \o mult \o <<Instruction(action.jumper, u.jt)>>]
        Jump(c0) ==
            IF c0.exc # "none"
            THEN [cs |-> c0.cs, insts |-> <<>>, exc |-> c0.exc, message |-> c0.message,
                  action |-> action]
            ELSE IF action.jump_to_body
            THEN JumpToBody(c0, _update_jumptable(AddPc(c0.cs, Len(mult) + 2), body_label))
            ELSE [cs |-> AddPc(c0.cs, Len(mult) + 1), exc |-> "none", action |-> action,
                  insts |-> c0.insts \o mult]
    IN  Jump(IF comparison
             THEN IF is_zero(condition.right)
                  THEN compile_expression(cs, condition.left)
                  ELSE compile_expression(cs, [condition EXCEPT !.operator = "minus"])
             ELSE compile_expression(cs, condition))

compile_assignment_statement(cs, s) ==
    LET Store(r, cs1) ==
            CR(AddPc(cs1, 1),
               Append(r.insts,
                      Instruction("STORE", Operand(cs1._var_map[s.variable.name], "direct"))))
        Bind(r) ==
            IF r.exc # "none" THEN r
            ELSE Store(r, BindVariable(r.cs, s.variable.name))
    IN  Bind(compile_expression(cs, s.expression))

AST(head) == [head |-> head]

RECURSIVE compile_statement(_, _)
RECURSIVE CompileStatements(_, _, _)

\* the comprehension of compile_block_statement from statement i on
CompileStatements(cs, statements, i) ==
    LET Join(r, rest) ==
            IF rest.exc # "none" THEN rest
            ELSE CR(rest.cs, r.insts \o rest.insts)
        Rest(r) ==
            IF r.exc # "none" THEN r
            ELSE Join(r, CompileStatements(r.cs, statements, i + 1))
    IN  IF i > Len(statements) THEN CR(cs, <<>>)
        ELSE Rest(compile_statement(cs, statements[i]))

compile_block_statement(cs, block) == CompileStatements(cs, block.statements, 1)

\* the jump appended to the condition: past the body when the condition fails
ConditionExit(action, jt) ==
    IF action.jump_to_body THEN Instruction("JUMP", jt)
    ELSE Instruction(action.jumper, jt)

compile_if_statement(cs, s) ==
    LET ic == cs._if_counter + 1
        EndIf(b, t, jt, e, u) ==
            CR(u.cs, Append(b.insts, ConditionExit(b.action, jt))
                     \o Append(t.insts, Instruction("JUMP", u.jt))
                     \o e.insts)
        ElseBody(b, t, jt, e) ==
            IF e.exc # "none" THEN e
            ELSE EndIf(b, t, jt, e,
                       _update_jumptable(e.cs, LabelName(<<"e","n","d","i","f">>, ic)))
        Else(b, t, u) == ElseBody(b, t, u.jt, compile_statement(u.cs, s.else_body))
        NoElse(b, t, u) ==
            CR(u.cs, Append(b.insts, ConditionExit(b.action, u.jt)) \o t.insts)
        TrueBody(b, t) ==
            IF t.exc # "none" THEN t
            ELSE IF s.else_body # NoAst
            THEN Else(b, t, _update_jumptable(AddPc(t.cs, 1),
                                              LabelName(<<"e","l","s","e">>, ic)))
            ELSE NoElse(b, t, _update_jumptable(t.cs, LabelName(<<"e","n","d","i","f">>, ic)))
        Condition(b) ==
            IF b.exc # "none" THEN Reraise(b)
            ELSE TrueBody(b, compile_statement(b.cs, s.true_body))
    IN  Condition(_build_condition_instructions([cs EXCEPT !._if_counter = ic],
                                                s.condition, LabelName(<<"i","f">>, ic)))

\* the mutant installs the label of the back-jump after the condition, at the
\* first instruction of the body
compile_while_statement_mut_body(cs, s) ==
    LET wc == cs._while_counter + 1
        EndWhile(while_target, b, body, end_target) ==
            CR(end_target.cs,
               Append(b.insts, ConditionExit(b.action, end_target.jt))
               \o Append(body.insts, Instruction("JUMP", while_target)))
        LoopBody(while_target, b, body) ==
            IF body.exc # "none" THEN body
            ELSE EndWhile(while_target, b, body,
                          _update_jumptable(AddPc(body.cs, 1),
                                            LabelName(<<"e","n","d","w","h","i","l","e">>, wc)))
        Target(b, u) ==
            LoopBody(u.jt, [b EXCEPT !.cs = u.cs], compile_statement(u.cs, s.body))
        Condition(b) ==
            IF b.exc # "none" THEN Reraise(b)
            ELSE Target(b, _update_jumptable(b.cs, LabelName(<<"w","h","i","l","e">>, wc)))
    IN  Condition(_build_condition_instructions(
                      [cs EXCEPT !._while_counter = wc], s.condition,
                      LabelName(<<"c","o","n","t","i","n","u","e">>, wc)))

compile_while_statement(cs, s) ==
    LET wc == cs._while_counter + 1
        EndWhile(while_target, b, body, end_target) ==
            CR(end_target.cs,
               Append(b.insts, ConditionExit(b.action, end_target.jt))
               \o Append(body.insts, Instruction("JUMP", while_target)))
        LoopBody(while_target, b, body) ==
            IF body.exc # "none" THEN body
            ELSE EndWhile(while_target, b, body,
                          _update_jumptable(AddPc(body.cs, 1),
                                            LabelName(<<"e","n","d","w","h","i","l","e">>, wc)))
        Condition(while_target, b) ==
            IF b.exc # "none" THEN Reraise(b)
            ELSE LoopBody(while_target, b, compile_statement(b.cs, s.body))
        While(u) ==
            Condition(u.jt,
                      _build_condition_instructions(
                          u.cs, s.condition,
                          LabelName(<<"c","o","n","t","i","n","u","e">>, wc)))
    IN  While(_update_jumptable([cs EXCEPT !._while_counter = wc],
                                LabelName(<<"w","h","i","l","e">>, wc)))

compile_statement(cs, statement) ==
    LET Count(r) == IF r.exc # "none" THEN r ELSE CR(AddPc(r.cs, 1), r.insts)
    IN  IF statement.kind = "Block" THEN compile_block_statement(cs, statement)
        ELSE IF statement.kind = "Read" THEN Count(compile_read_statement(cs, statement))
        ELSE IF statement.kind = "Write" THEN Count(compile_write_statement(cs, statement))
        ELSE IF statement.kind = "If" THEN compile_if_statement(cs, statement)
        ELSE IF statement.kind = "While" THEN compile_while_statement(cs, statement)
        ELSE IF statement.kind = "Assignment" THEN compile_assignment_statement(cs, statement)
        ELSE CErr(cs)

\* RamCompiler.compile on the instance cs: the instance afterwards and either
\* the Program returned or the CompileError raised
compile(cs, p) ==
    LET Finish(r) ==
            IF r.exc # "none" THEN [cs |-> r.cs, exc |-> r.exc, message |-> r.message]
            ELSE [cs |-> AddPc(r.cs, 1), exc |-> "none",
                  program |-> Program(Append(r.insts, HaltInstruction), r.cs._jumptable)]
    IN  Finish(compile_statement([cs EXCEPT !._var_map = EmptyMap, !._jumptable = <<>>,
                                           !._reverse_jumptable = EmptyMap, !._pc = 0],
                                 p.head))

\* compile_to_ram(program): a fresh RamCompiler
compile_to_ram(p) == compile(NewCompiler, p)


(***************************************************************************)
(* Big-step semantics of Pidgin ALGOL, the reference the compiled code is  *)
(* compared with.  Arithmetic is on integers, / is floor division, a       *)
(* comparison yields 1 or 0, a condition holds when its value is not 0, a  *)
(* read past the end of the tape yields 0; using a variable that was never *)
(* assigned or read, and dividing by 0, are errors that end the evaluation.*)
(***************************************************************************)
Holds(op, a, b) ==
    CASE op = "equals"     -> a = b
      [] op = "not_equals" -> a # b
      [] op = "lt"         -> a < b
      [] op = "le"         -> a <= b
      [] op = "gt"         -> a > b
      [] op = "ge"         -> a >= b

RefVal(n) == [ok |-> TRUE, v |-> n]

RefBad == [ok |-> FALSE, v |-> 0]

RECURSIVE RefEval(_, _)

RefEval(e, env) ==
    IF e.kind = "Literal" THEN RefVal(e.value)
    ELSE IF e.kind = "Variable"
    THEN IF e.name \in DOMAIN env THEN RefVal(env[e.name]) ELSE RefBad
    ELSE IF e.kind = "Negation"
    THEN LET a == RefEval(e.exp, env)
         IN  IF a.ok THEN RefVal(-a.v) ELSE RefBad
    ELSE LET l == RefEval(e.left, env)
             r == RefEval(e.right, env)
             op == e.operator
         IN  IF ~l.ok \/ ~r.ok THEN RefBad
             ELSE IF op = "plus" THEN RefVal(l.v + r.v)
             ELSE IF op = "minus" THEN RefVal(l.v - r.v)
             ELSE IF op = "mult" THEN RefVal(l.v * r.v)
             ELSE IF op = "div"
             THEN IF r.v = 0 THEN RefBad ELSE RefVal(l.v \div r.v)
             ELSE RefVal(IF Holds(op, l.v, r.v) THEN 1 ELSE 0)

\* the state of an evaluation on input tape
RefStart == [status |-> "ok", env |-> EmptyMap, rh |-> 0, out |-> <<>>, iters |-> 0]

RefFail(st) == [st EXCEPT !.status = "error"]

RECURSIVE RefExec(_, _, _)
RECURSIVE RefBlock(_, _, _, _)
RECURSIVE RefWhile(_, _, _)

RefBlock(statements, i, st, tape) ==
    IF i > Len(statements) \/ st.status # "ok" THEN st
    ELSE RefBlock(statements, i + 1, RefExec(statements[i], st, tape), tape)

\* an evaluation of more than MaxRunSteps / 3 iterations is given up as
\* "fuel": the compiled loop spends at least three step() per iteration (the
\* condition, the conditional jump and the JUMP back)
RefWhile(s, st, tape) ==
    LET cond == RefEval(s.condition, st.env)
    IN  IF st.status # "ok" THEN st
        ELSE IF ~cond.ok THEN RefFail(st)
        ELSE IF cond.v = 0 THEN st
        ELSE IF 3 * st.iters >= MaxRunSteps THEN [st EXCEPT !.status = "fuel"]
        ELSE RefWhile(s, RefExec(s.body, [st EXCEPT !.iters = @ + 1], tape), tape)

RefExec(s, st, tape) ==
    IF st.status # "ok" THEN st
    ELSE IF s.kind = "Block" THEN RefBlock(s.statements, 1, st, tape)
    ELSE IF s.kind = "Read"
    THEN [st EXCEPT !.env = MapSet(@, s.variable.name,
                                   IF st.rh < Len(tape) THEN tape[st.rh + 1] ELSE 0),
                    !.rh = @ + 1]
    ELSE IF s.kind = "Write"
    THEN LET a == RefEval(s.value, st.env)
         IN  IF a.ok THEN [st EXCEPT !.out = Append(@, a.v)] ELSE RefFail(st)
    ELSE IF s.kind = "Assignment"
    THEN LET a == RefEval(s.expression, st.env)
         IN  IF a.ok THEN [st EXCEPT !.env = MapSet(@, s.variable.name, a.v)]
             ELSE RefFail(st)
    ELSE IF s.kind = "If"
    THEN LET cond == RefEval(s.condition, st.env)
         IN  IF ~cond.ok THEN RefFail(st)
             ELSE IF cond.v # 0 THEN RefExec(s.true_body, st, tape)
             ELSE IF s.else_body # NoAst THEN RefExec(s.else_body, st, tape)
             ELSE st
    ELSE RefWhile(s, st, tape)

Ref(p, tape) ==
    LET st == RefExec(p.head, RefStart, tape)
    IN  [status |-> st.status, out |-> st.out, iters |-> st.iters]


(***************************************************************************)
(* Compiling and running Pidgin ALGOL programs (pidgin_algol/cli.py): the  *)
(* programs read x and y, execute one statement of a family that covers    *)
(* every statement kind and operator, and write x.                         *)
(***************************************************************************)
Vx == VariableExpression("x")

Vy == VariableExpression("y")

Vz == VariableExpression("z")

Lit(n) == LiteralExpression(n)

ComparisonOperators == {"equals", "not_equals", "lt", "le", "gt", "ge"}

BinaryOperator == ComparisonOperators \cup {"plus", "minus", "mult", "div"}

InnerOperators == {"minus", "mult", "lt", "equals"}

\* a unary left operand, a literal or variable right operand
SimpleExprs ==
    {BinaryExpression(l, op, r) :
        l \in {Vx, Lit(1), UnaryNegationExpression(Vx)},
        op \in BinaryOperator,
        r \in {Vy, Lit(0), Lit(2)}}

\* a binary right operand, which goes through a temporary register
RightNestedExprs ==
    {BinaryExpression(l, op, BinaryExpression(Vx, op2, Vy)) :
        l \in {Vy, Lit(1)}, op \in BinaryOperator, op2 \in InnerOperators}

LeftNestedExprs ==
    {BinaryExpression(BinaryExpression(Vx, op2, Vy), op, r) :
        r \in {Vy, Lit(2)}, op \in BinaryOperator, op2 \in InnerOperators}

OtherExprs ==
    {Vx, Lit(7), Vz, UnaryNegationExpression(Lit(3)),
     UnaryNegationExpression(UnaryNegationExpression(Vy)),
     UnaryNegationExpression(BinaryExpression(Vx, "minus", Vy)),
     BinaryExpression(Vz, "plus", Lit(1)),
     BinaryExpression(Vx, "mult", Vz),
     BinaryExpression(Vx, "minus",
        BinaryExpression(Vy, "mult",
           BinaryExpression(Vx, "plus",
              UnaryNegationExpression(BinaryExpression(Vy, "lt", Vx))))),
     BinaryExpression(BinaryExpression(Vx, "div", Lit(2)), "ge",
        BinaryExpression(Vy, "div", BinaryExpression(Vx, "plus", Lit(3)))),
     BinaryExpression(Vx, "minus",
        BinaryExpression(Vy, "minus",
           BinaryExpression(Vx, "minus", BinaryExpression(Vy, "minus", Lit(1))))),
     BinaryExpression(BinaryExpression(Vx, "minus", BinaryExpression(Vy, "mult", Vy)),
        "minus", BinaryExpression(Vy, "minus", Vx))}

Exprs == SimpleExprs \cup RightNestedExprs \cup LeftNestedExprs \cup OtherExprs

\* the conditions of the if statement the condition lowering is about
ComparisonConds ==
    {BinaryExpression(Vx, op, r) : op \in ComparisonOperators, r \in {Vy, Lit(0)}}

Conds ==
    SimpleExprs \cup
    {Vx, UnaryNegationExpression(Vy), Vz, Lit(0),
     BinaryExpression(Vy, "gt", BinaryExpression(Vx, "mult", Vy)),
     BinaryExpression(BinaryExpression(Vx, "le", Vy), "equals", Lit(0))}

WhileConds ==
    ComparisonConds \cup {Vx, BinaryExpression(Vx, "minus", Vy),
                          BinaryExpression(Vx, "lt", BinaryExpression(Vy, "plus", Lit(1)))}

Assign(variable, e) == AssignmentStatement(variable, e)

WhileBodies ==
    {BlockStatement(<<Assign(Vx, BinaryExpression(Vx, "minus", Lit(1))), WriteStatement(Vx)>>),
     BlockStatement(<<WriteStatement(Vy), Assign(Vx, BinaryExpression(Vx, "plus", Lit(1)))>>),
     ReadStatement(Vx),
     IfStatement(BinaryExpression(Vx, "gt", Vy),
                 Assign(Vx, BinaryExpression(Vx, "minus", Lit(2))),
                 Assign(Vy, BinaryExpression(Vy, "minus", Lit(1))))}

OtherStatements ==
    {BlockStatement(<<>>),
     BlockStatement(<<Assign(Vz, BinaryExpression(Vy, "minus",
                                    BinaryExpression(Vx, "mult", Vy))),
                      WriteStatement(Vz)>>),
     WriteStatement(Vz),
     WriteStatement(BinaryExpression(Vx, "plus", Vy)),
     ReadStatement(Vz),
     BlockStatement(<<BlockStatement(<<ReadStatement(Vz)>>), WriteStatement(Vz)>>),
     BlockStatement(<<IfStatement(Vx, Assign(Vz, Lit(1)), NoAst), WriteStatement(Vz)>>),
     IfStatement(BinaryExpression(Vx, "lt", Vy),
                 IfStatement(BinaryExpression(Vx, "equals", Lit(0)),
                             WriteStatement(Lit(3)), WriteStatement(Lit(4))),
                 WhileStatement(BinaryExpression(Vx, "gt", Vy),
                                Assign(Vx, BinaryExpression(Vx, "minus", Lit(1))))),
     WhileStatement(BinaryExpression(Vx, "ge", Lit(1)),
        BlockStatement(<<
           WhileStatement(BinaryExpression(Vy, "lt", Vx),
                          Assign(Vy, BinaryExpression(Vy, "plus", Lit(2)))),
           Assign(Vx, BinaryExpression(Vx, "minus", Lit(1)))>>))}

\* divisions by the literal 0 away from the top of an assignment: in a nested
\* right operand, under a negation, in the operand of a comparison that is a
\* condition, and in the branch of an if
DivideStatements ==
    {Assign(Vx, BinaryExpression(Vy, "minus", BinaryExpression(Vx, "div", Lit(0)))),
     Assign(Vx, BinaryExpression(Vy, "mult",
                   BinaryExpression(Lit(2), "plus", BinaryExpression(Vx, "div", Lit(0))))),
     Assign(Vx, UnaryNegationExpression(BinaryExpression(Vx, "div", Lit(0)))),
     Assign(Vx, BinaryExpression(BinaryExpression(Vx, "div", Lit(0)), "mult", Lit(0))),
     WhileStatement(BinaryExpression(BinaryExpression(Vx, "div", Lit(0)), "lt", Vy),
                    ReadStatement(Vx)),
     WhileStatement(BinaryExpression(Vx, "ge", BinaryExpression(Vy, "div", Lit(0))),
                    ReadStatement(Vx)),
     IfStatement(BinaryExpression(BinaryExpression(Vx, "div", Lit(0)), "equals", Lit(0)),
                 WriteStatement(Lit(1)), NoAst),
     IfStatement(BinaryExpression(Vx, "gt", Lit(0)), WriteStatement(Lit(1)),
                 Assign(Vy, BinaryExpression(Lit(1), "div", Lit(0))))}

Statements ==
    DivideStatements \cup
    {Assign(Vx, e) : e \in Exprs}
    \cup {IfStatement(cond, WriteStatement(Lit(1)), e) :
            cond \in Conds, e \in {WriteStatement(Lit(2)), NoAst}}
    \cup {WhileStatement(cond, body) : cond \in WhileConds, body \in WhileBodies}
    \cup OtherStatements

ProgramOf(statement) ==
    AST(BlockStatement(<<ReadStatement(Vx), ReadStatement(Vy), statement, WriteStatement(Vx)>>))

Programs ==
    {ProgramOf(statement) : statement \in Statements}
    \cup {AST(WriteStatement(Lit(5))), AST(Assign(Vx, Vx)),
          AST(BlockStatement(<<
              Assign(Vx, BinaryExpression(Lit(1), "minus",
                            BinaryExpression(Lit(2), "mult", Lit(3)))),
              WriteStatement(Vx)>>)),
          AST(BlockStatement(<<
              ReadStatement(Vz),
              Assign(Vx, BinaryExpression(Vy, "minus", Vz)),
              WriteStatement(Vx)>>)),
          AST(IfStatement(BinaryExpression(Vx, "lt", Vy), BlockStatement(<<>>), NoAst)),
          AST(WhileStatement(BinaryExpression(Lit(1), "lt", Lit(0)), BlockStatement(<<>>)))}

TapeValues == {-3, 0, 2}

Tapes == {<<>>, <<2>>} \cup {<<a, b>> : a, b \in TapeValues}

InitCompile ==
    /\ ast \in Programs
    /\ compiler = NoCompiler
    /\ ref = NoRef
    /\ RamIdle
    /\ codec = NoCodec
    /\ LexIdle

\* compile_to_ram(ast), then RAM(ram_program, input_tape)
Compile ==
    /\ compiler = NoCompiler
    /\ \E tape \in Tapes :
          LET r == compile_to_ram(ast)
          IN  IF r.exc = "none"
              THEN /\ compiler' = [cs |-> r.cs, result |-> [exc |-> "none", program |-> r.program]]
                   /\ ram' = NewRAM(r.program, tape)
                   /\ ref' = Ref(ast, tape)
              ELSE /\ compiler' = [cs |-> r.cs,
                                   result |-> [exc |-> r.exc, message |-> r.message]]
                   /\ UNCHANGED <<ram, ref>>
    /\ UNCHANGED <<ast, ctl, last, codec, lexVars>>

Compiled == compiler # NoCompiler /\ compiler.result.exc = "none"

Recompiled == compiler # NoCompiler /\ "again" \in DOMAIN compiler

\* a second compile(ast) on the RamCompiler instance of the first call, made
\* before the Program is run: again is the instance after it and what it
\* returned or raised
Recompile ==
    /\ compiler # NoCompiler
    /\ ~Recompiled
    /\ ctl = "idle" /\ last = NoCall
    /\ LET r == compile(compiler.cs, ast)
       IN  compiler' =
              [cs |-> compiler.cs, result |-> compiler.result,
               again |-> [cs |-> r.cs,
                          result |-> IF r.exc = "none"
                                     THEN [exc |-> "none", program |-> r.program]
                                     ELSE [exc |-> r.exc, message |-> r.message]]]
    /\ UNCHANGED <<ast, ramVars, ref, codec, lexVars>>

\* ram.run(); the RAM holds the Program of the first call, so its run after a
\* second call is the run explored without one
RunCompiled == Compiled /\ ~Recompiled /\ last = NoCall /\ RunCall

NextCompile ==
    \/ Compile
    \/ Recompile
    \/ RunCompiled
    \/ (Compiled /\ RunStep)
    \/ (Compiled /\ RunReturn)

SpecCompile == InitCompile /\ [][NextCompile]_vars


\* the run of the compiled program was cut off by the bounds of the model
Truncated ==
    /\ ctl = "running"
    /\ run_loop_test(ram)
    /\ ~(StepAllowed(ram) /\ InBounds(step(ram).m))

\* the statement the program executes between its reads and its write
Body == ast.head.statements[3]

\* C1: running the compiled program halts with exactly the output tape of the
\* reference evaluation; it raises only when the reference evaluation fails;
\* and when the reference evaluation terminates (within RefIters loop
\* iterations) the run is never cut short of halting
C1_CompilerSoundness ==
    Compiled =>
        /\ ram.halted => ref.status = "ok" /\ ram.output_tape = ref.out
        /\ last.step_exc # "none" => ref.status = "error"
        /\ ref.status = "ok" /\ ref.iters <= RefIters => ~Truncated

C1_Witness ==
    /\ Compiled
    /\ ast.head.kind = "Block" /\ Len(ast.head.statements) = 4
    /\ Body.kind = "While"
    /\ ram.halted /\ ctl = "idle"
    /\ ref.status = "ok" /\ ref.iters >= 2
    /\ Len(ram.output_tape) >= 3
    /\ ram.output_tape = ref.out

\* the programs `read x; read y; if x op y then write 1 [else write 2]; write x`
\* with y either the variable or the literal 0
IsConditionProgram ==
    /\ ast.head.kind = "Block" /\ Len(ast.head.statements) = 4
    /\ Body.kind = "If"
    /\ Body.condition \in ComparisonConds
    /\ Body.true_body = WriteStatement(Lit(1))
    /\ Body.else_body \in {WriteStatement(Lit(2)), NoAst}

TapeAt(tape, i) == IF i < Len(tape) THEN tape[i + 1] ELSE 0

\* a op b for the values the program read
ConditionHolds ==
    Holds(Body.condition.operator,
          TapeAt(ram.input_tape, 0),
          IF Body.condition.right = Lit(0) THEN 0 ELSE TapeAt(ram.input_tape, 1))

\* what T and E wrote, the final write of x left out
Written == SubSeq(ram.output_tape, 1, Len(ram.output_tape) - 1)

\* C2: the compiled if statement executes T (write 1) and not E (write 2)
\* exactly when a op b holds, E and not T otherwise, neither when there is no
\* else branch and a op b fails; the run never raises
C2_ConditionLowering ==
    Compiled /\ IsConditionProgram =>
        /\ last.step_exc = "none"
        /\ ~Truncated
        /\ ram.halted =>
              Written = IF ConditionHolds THEN <<1>>
                        ELSE IF Body.else_body # NoAst THEN <<2>>
                        ELSE <<>>

C2_Witness ==
    /\ Compiled /\ IsConditionProgram
    /\ Body.condition.right = Lit(0)
    /\ Body.condition.operator = "ge"
    /\ Body.else_body # NoAst
    /\ ram.halted /\ ctl = "idle"
    /\ ~ConditionHolds
    /\ ram.output_tape = <<2, -3>>
    /\ \A i \in 1..Len(ram.program.instructions) :
          ram.program.instructions[i].opcode # "SUB"

(***************************************************************************)
(* Properties of the Program the compiler returns, under SpecCompile.      *)
(***************************************************************************)
\* HALT is the last instruction and occurs nowhere else
HaltOnlyLast(p) ==
    /\ Len(p.instructions) >= 1
    /\ \A k \in 1..Len(p.instructions) :
          p.instructions[k].opcode = "HALT" <=> k = Len(p.instructions)

\* every STORE and READ operand is a direct operand
StoreReadDirect(p) ==
    \A k \in 1..Len(p.instructions) :
        p.instructions[k].opcode \in {"STORE", "READ"}
            => /\ IsOperand(p.instructions[k].address)
               /\ p.instructions[k].address.flag = "direct"

\* C11: every Program returned by compile is well-formed: each jump address
\* is a key of the jumptable, each jumptable value indexes an instruction,
\* HALT is last and only last, STORE and READ operands are direct
C11_CompiledWellFormed ==
    Compiled =>
        /\ JumpsResolved(compiler.result.program)
        /\ JumptableInRange(compiler.result.program)
        /\ HaltOnlyLast(compiler.result.program)
        /\ StoreReadDirect(compiler.result.program)

\* a program whose endif label is shared with the if label of an empty body
\* and sits on the final HALT
C11_Witness ==
    /\ Compiled
    /\ ast = AST(IfStatement(BinaryExpression(Vx, "lt", Vy), BlockStatement(<<>>), NoAst))
    /\ Len(compiler.result.program.jumptable) = 1
    /\ compiler.result.program.jumptable[1].value
          = Len(compiler.result.program.instructions) - 1
    /\ \E k \in 1..Len(compiler.result.program.instructions) :
          compiler.result.program.instructions[k].opcode = "JUMP"

(***************************************************************************)
(* The label maps of the compiler, under SpecCompile.  Both maps only ever *)
(* gain entries during a compile call and an entry of _reverse_jumptable   *)
(* is never rewritten, so a pair of maps that stopped being inverse at any *)
(* point of the call is still not inverse when the call ends or raises.    *)
(***************************************************************************)
\* _jumptable and _reverse_jumptable are inverse to each other
InverseMaps(cs) ==
    /\ \A j, k \in 1..Len(cs._jumptable) :
          cs._jumptable[j].key = cs._jumptable[k].key => j = k
    /\ \A k \in 1..Len(cs._jumptable) :
          /\ cs._jumptable[k].value \in DOMAIN cs._reverse_jumptable
          /\ cs._reverse_jumptable[cs._jumptable[k].value] = cs._jumptable[k].key
    /\ \A pc \in DOMAIN cs._reverse_jumptable :
          /\ DictHas(cs._jumptable, cs._reverse_jumptable[pc])
          /\ DictGet(cs._jumptable, cs._reverse_jumptable[pc]) = pc

\* no two labels at one address, no label at two addresses
OneLabelPerAddress(cs) ==
    /\ \A j, k \in 1..Len(cs._jumptable) :
          cs._jumptable[j].value = cs._jumptable[k].value => j = k
    /\ Cardinality(DOMAIN cs._reverse_jumptable) = Len(cs._jumptable)

ProbeLabel == <<"p", "r", "o", "b", "e">>

\* _update_jumptable called at an address that carries a label returns that
\* label and leaves the compiler as it was
ReturnsExisting(cs) ==
    \A pc \in DOMAIN cs._reverse_jumptable :
        LET at == [cs EXCEPT !._pc = pc]
            Same(u) == u.jt = cs._reverse_jumptable[pc] /\ u.cs = at
        IN  Same(_update_jumptable(at, ProbeLabel))

ElseLabel1 == JumpTarget(LabelName(<<"e","l","s","e">>, 1))

WhileLabel1 == JumpTarget(LabelName(<<"w","h","i","l","e">>, 1))

\* C31: whenever a compile call has returned or raised, _jumptable and
\* _reverse_jumptable are inverse bijections (no two labels share an
\* address, no label sits at two addresses), every jump of a returned
\* Program goes to an installed label, and _update_jumptable at an address
\* that already carries a label returns that label and creates none
C31_OneLabelPerAddress ==
    compiler # NoCompiler =>
        /\ InverseMaps(compiler.cs)
        /\ OneLabelPerAddress(compiler.cs)
        /\ ReturnsExisting(compiler.cs)
        /\ Compiled =>
              /\ JumpsResolved(compiler.result.program)
              /\ compiler.result.program.jumptable = compiler.cs._jumptable

\* a while statement that is the else branch of an if: the loop starts at the
\* address labelled else1, no while1 is created and the loop's back jump goes
\* to else1
C31_Witness ==
    /\ Compiled
    /\ ast.head.kind = "Block" /\ Len(ast.head.statements) = 4
    /\ Body.kind = "If" /\ Body.else_body.kind = "While"
    /\ DictHas(compiler.cs._jumptable, ElseLabel1)
    /\ ~DictHas(compiler.cs._jumptable, WhileLabel1)
    /\ \E k \in 1..Len(compiler.result.program.instructions) :
          /\ compiler.result.program.instructions[k] = Instruction("JUMP", ElseLabel1)
          /\ k - 1 > DictGet(compiler.cs._jumptable, ElseLabel1)


(***************************************************************************)
(* Comparisons at expression position, under SpecCompile: the programs     *)
(* `read x; read y; x <- l op r; write x` with op a comparison.            *)
(***************************************************************************)
IsComparisonProgram ==
    /\ ast.head.kind = "Block" /\ Len(ast.head.statements) = 4
    /\ Body.kind = "Assignment"
    /\ Body.expression.kind = "Binary"
    /\ is_comparison_operator(Body.expression.operator)

\* the instruction at address i of the program being run
InsAt(i) == ram.program.instructions[i + 1]

\* the address of the jumper of the outermost comparison: its four
\* instructions are followed by the STORE of x, the WRITE and the HALT
CmpJumper == Len(ram.program.instructions) - 7

\* jumper cmp<k> / LOAD / JUMP endcmp<k> / LOAD, the first label on the second
\* LOAD and the second on the instruction after it
CmpSequence ==
    /\ InsAt(CmpJumper).opcode \in {"JGTZ", "JZERO"}
    /\ InsAt(CmpJumper + 1).opcode = "LOAD"
    /\ InsAt(CmpJumper + 2).opcode = "JUMP"
    /\ InsAt(CmpJumper + 3).opcode = "LOAD"
    /\ {InsAt(CmpJumper + 1).address, InsAt(CmpJumper + 3).address} = {_zero, _pos_one}
    /\ DictGet(ram.program.jumptable, InsAt(CmpJumper).address) = CmpJumper + 3
    /\ DictGet(ram.program.jumptable, InsAt(CmpJumper + 2).address) = CmpJumper + 4

\* the values the two reads gave x and y
ReadEnv == ("x" :> TapeAt(ram.input_tape, 0)) @@ ("y" :> TapeAt(ram.input_tape, 1))

\* whether l op r holds for the values read
ComparisonValue == RefEval(Body.expression, ReadEnv)

\* C21: the compiled code of `l op r` ends in the four-instruction sequence
\* jumper / LOAD / JUMP / LOAD; control leaves the sequence only to the
\* instruction right after it (label endcmp<k>), from the JUMP or from the
\* second LOAD, and arrives there with c(0) = 1 when l op r holds for the
\* values read and c(0) = 0 otherwise
C21_ComparisonValue ==
    Compiled /\ IsComparisonProgram =>
        /\ CmpSequence
        /\ LastDispatched /\ last.step_exc = "none"
           /\ last.pre.location_counter \in CmpJumper..(CmpJumper + 3)
              => ram.location_counter =
                    CASE last.pre.location_counter = CmpJumper ->
                            IF ram.location_counter = CmpJumper + 1
                            THEN CmpJumper + 1 ELSE CmpJumper + 3
                      [] last.pre.location_counter = CmpJumper + 1 -> CmpJumper + 2
                      [] OTHER -> CmpJumper + 4
        /\ ram.location_counter = CmpJumper + 4 /\ ram.step_counter > 0
              => /\ LastDispatched
                 /\ last.pre.location_counter \in {CmpJumper + 2, CmpJumper + 3}
                 /\ ComparisonValue.ok
                 /\ c(ram, 0) = ComparisonValue.v
                 /\ c(ram, 0) \in {0, 1}

\* 2 <= 2 was evaluated: the jumper fell through, 1 was loaded and the JUMP
\* brought control to the STORE with c(0) = 1
C21_Witness ==
    /\ Compiled /\ IsComparisonProgram
    /\ Body.expression = BinaryExpression(Vx, "le", Vy)
    /\ ram.input_tape = <<2, 2>>
    /\ ram.location_counter = CmpJumper + 4
    /\ LastDispatched /\ last.pre.location_counter = CmpJumper + 2
    /\ c(ram, 0) = 1


(***************************************************************************)
(* Conditions that are not comparisons, under SpecCompile: the programs    *)
(* `read x; read y; if e then write 1 [else write 2]; write x` and         *)
(* `read x; read y; while e do B; write x` with e a variable, a literal, a *)
(* negation or an arithmetic expression without a nested comparison.       *)
(***************************************************************************)
IsImpliedConditionProgram ==
    /\ ast.head.kind = "Block" /\ Len(ast.head.statements) = 4
    /\ Body.kind \in {"If", "While"}
    /\ ~(Body.condition.kind = "Binary" /\ is_comparison_operator(Body.condition.operator))

\* the address of the jump that decides the condition: the code of e has no
\* jump, so it is the first jump of the program
CondJump ==
    CHOOSE i \in 0..(Len(ram.program.instructions) - 1) :
        /\ InsAt(i).opcode \in JumpOpcodes
        /\ \A j \in 0..(i - 1) : InsAt(j).opcode \notin JumpOpcodes

\* where that jump leads: the else branch or the statement after the if / while
CondExit == DictGet(ram.program.jumptable, InsAt(CondJump).address)

\* the values of the variables in machine m, read from the registers the
\* compiler bound them to
EnvOf(m) ==
    [n \in {nm \in {"x", "y", "z"} :
               /\ nm \in DOMAIN compiler.cs._var_map
               /\ compiler.cs._var_map[nm] \in DOMAIN m.memory_registers}
        |-> m.memory_registers[compiler.cs._var_map[n]]]

\* the value of e when the deciding jump was dispatched
ConditionValue == RefEval(Body.condition, EnvOf(last.pre))

\* C22: each time the condition e of the if / while has been evaluated,
\* control enters the body when the value of e is not 0 and goes past it when
\* the value is 0; the body is entered in no other way; and the if statement
\* writes 1 exactly when e is not 0 for the values read
C22_ImpliedNotEquals ==
    Compiled /\ IsImpliedConditionProgram =>
        /\ LastDispatched /\ last.step_exc = "none" /\ last.pre.location_counter = CondJump
              => /\ ConditionValue.ok
                 /\ ram.location_counter =
                       IF ConditionValue.v # 0 THEN CondJump + 1 ELSE CondExit
                 /\ CondExit # CondJump + 1
        /\ ram.location_counter = CondJump + 1
              => LastDispatched /\ last.pre.location_counter = CondJump
        /\ Body.kind = "If" /\ ram.halted
              => Written = IF RefEval(Body.condition, ReadEnv).v # 0 THEN <<1>>
                           ELSE IF Body.else_body # NoAst THEN <<2>>
                           ELSE <<>>

\* while x - y do begin x <- x - 1; write x end on the tape 2, 0: the body ran
\* twice and the third evaluation, of 0 - 0, left the loop
C22_Witness ==
    /\ Compiled /\ IsImpliedConditionProgram
    /\ Body.kind = "While"
    /\ Body.condition = BinaryExpression(Vx, "minus", Vy)
    /\ ram.input_tape = <<2, 0>>
    /\ LastDispatched /\ last.pre.location_counter = CondJump
    /\ ram.location_counter = CondExit
    /\ ram.output_tape = <<1, 0>>


(***************************************************************************)
(* While loops in the compiled code, under SpecCompile.  The k-th while    *)
(* statement the compiler meets gets the labels while<k> and endwhile<k>.  *)
(***************************************************************************)
RECURSIVE WhileNodes(_)
RECURSIVE WhileNodesFrom(_, _)

WhileNodesFrom(statements, i) ==
    IF i > Len(statements) THEN <<>>
    ELSE WhileNodes(statements[i]) \o WhileNodesFrom(statements, i + 1)

\* the while statements of s in the order compile_statement meets them
WhileNodes(s) ==
    IF s.kind = "Block" THEN WhileNodesFrom(s.statements, 1)
    ELSE IF s.kind = "If" THEN WhileNodes(s.true_body) \o WhileNodes(s.else_body)
    ELSE IF s.kind = "While" THEN <<s>> \o WhileNodes(s.body)
    ELSE <<>>

EndWhileLabel(k) == JumpTarget(LabelName(<<"e","n","d","w","h","i","l","e">>, k))

\* the address right after the k-th loop
AfterLoop(k) == DictGet(ram.program.jumptable, EndWhileLabel(k))

\* the address of the last instruction of the k-th loop
BackJump(k) == AfterLoop(k) - 1

\* where the last instruction of the k-th loop leads
LoopStart(k) == DictGet(ram.program.jumptable, InsAt(BackJump(k)).address)

\* the jumps of the k-th loop that lead right after it
LoopExits(k) ==
    {i \in LoopStart(k)..BackJump(k) :
        /\ InsAt(i).opcode \in JumpOpcodes
        /\ DictGet(ram.program.jumptable, InsAt(i).address) = AfterLoop(k)}

\* the last instruction of the condition code of the k-th loop
LoopExit(k) == CHOOSE i \in LoopExits(k) : TRUE

\* the loop is laid out as condition code, exit jump, body, back-jump
LoopLayout(k) ==
    /\ DictHas(ram.program.jumptable, EndWhileLabel(k))
    /\ BackJump(k) >= 0
    /\ InsAt(BackJump(k)).opcode = "JUMP"
    /\ DictHas(ram.program.jumptable, InsAt(BackJump(k)).address)
    /\ LoopStart(k) < BackJump(k)
    /\ Cardinality(LoopExits(k)) = 1

\* the last step() left the condition code of the k-th loop
LeftCondition(k) ==
    /\ LastDispatched /\ last.step_exc = "none"
    /\ last.pre.location_counter \in LoopStart(k)..LoopExit(k)
    /\ ram.location_counter \notin LoopStart(k)..LoopExit(k)

\* a block of an assignment and a write, in either order
WritesOnce(s) ==
    /\ s.kind = "Block" /\ Len(s.statements) = 2
    /\ {s.statements[1].kind, s.statements[2].kind} = {"Assignment", "Write"}

\* C23: for the k-th while statement `while c do B` of a compiled program:
\* the last instruction of its code is an unconditional JUMP back to the
\* start of the condition code (2 for a loop that follows the two reads), and
\* label endwhile<k> is on the instruction right after that JUMP; the JUMP
\* brings control to the start of the condition code, so c is evaluated
\* again; control leaves the condition code to the first instruction of B
\* when c holds and to the instruction after the back-jump when it does not;
\* and a loop whose body writes once per iteration has written once for each
\* evaluation in which c held when the program halts
C23_WhileLowering ==
    Compiled =>
        /\ \A k \in 1..Len(WhileNodes(ast.head)) :
              /\ LoopLayout(k)
              /\ LastDispatched /\ last.step_exc = "none"
                 /\ last.pre.location_counter = BackJump(k)
                    => ram.location_counter = LoopStart(k)
              /\ LeftCondition(k)
                    => /\ RefEval(WhileNodes(ast.head)[k].condition, EnvOf(ram)).ok
                       /\ ram.location_counter =
                             IF RefEval(WhileNodes(ast.head)[k].condition, EnvOf(ram)).v # 0
                             THEN LoopExit(k) + 1
                             ELSE AfterLoop(k)
        /\ ast.head.kind = "Block" /\ Len(ast.head.statements) = 4 /\ Body.kind = "While"
              => /\ LoopStart(1) = 2
                 /\ AfterLoop(1) = Len(ram.program.instructions) - 2
                 /\ ram.halted /\ WritesOnce(Body.body)
                       => Len(Written) = ref.iters

\* the inner loop of `while x >= 1 do begin while y < x do y <- y + 2;
\* x <- x - 1 end` was left for the second time, through its exit jump, after
\* the outer loop went round once
C23_Witness ==
    /\ Compiled
    /\ Len(WhileNodes(ast.head)) = 2
    /\ WhileNodes(ast.head)[1].body.kind = "Block"
    /\ ram.input_tape = <<2, 0>>
    /\ LeftCondition(2)
    /\ ram.location_counter = AfterLoop(2)
    /\ c(ram, compiler.cs._var_map["x"]) = 1
    /\ LoopStart(1) < LoopStart(2) /\ AfterLoop(2) < BackJump(1)


(***************************************************************************)
(* Division by the literal 0, under SpecCompile.                           *)
(***************************************************************************)
RECURSIVE DividesByLiteralZero(_)
\* the expression contains a division whose right operand is the literal 0
DividesByLiteralZero(e) ==
    IF e.kind = "Binary"
    THEN \/ e.operator = "div" /\ is_zero(e.right)
         \/ DividesByLiteralZero(e.left)
         \/ DividesByLiteralZero(e.right)
    ELSE IF e.kind = "Negation" THEN DividesByLiteralZero(e.exp)
    ELSE FALSE

RECURSIVE ContainsDivisionByZero(_)
\* the statement contains such a division
ContainsDivisionByZero(s) ==
    IF s.kind = "Block"
    THEN \E i \in 1..Len(s.statements) : ContainsDivisionByZero(s.statements[i])
    ELSE IF s.kind = "If"
    THEN \/ DividesByLiteralZero(s.condition)
         \/ ContainsDivisionByZero(s.true_body)
         \/ ContainsDivisionByZero(s.else_body)
    ELSE IF s.kind = "While"
    THEN DividesByLiteralZero(s.condition) \/ ContainsDivisionByZero(s.body)
    ELSE IF s.kind = "Assignment" THEN DividesByLiteralZero(s.expression)
    ELSE FALSE

RECURSIVE WriteTyped(_)
\* WriteStatement.value: VariableExpression | LiteralExpression, in every
\* write of the statement
WriteTyped(s) ==
    IF s.kind = "Block"
    THEN \A i \in 1..Len(s.statements) : WriteTyped(s.statements[i])
    ELSE IF s.kind = "If" THEN WriteTyped(s.true_body) /\ WriteTyped(s.else_body)
    ELSE IF s.kind = "While" THEN WriteTyped(s.body)
    ELSE IF s.kind = "Write" THEN s.value.kind \in {"Literal", "Variable"}
    ELSE TRUE

\* C29: compile of an AST that contains a division whose right operand is
\* the literal 0, in an assignment or in a condition, at the top of the
\* expression or nested in it, raised CompileError with the message
\* "Attempt to divide by literal 0 in ..." and returned no Program
C29_DivideByLiteralZero ==
    compiler # NoCompiler /\ WriteTyped(ast.head) /\ ContainsDivisionByZero(ast.head) =>
        /\ compiler.result.exc = "CompileError"
        /\ compiler.result.message = "Attempt to divide by literal 0 in "
        /\ "program" \notin DOMAIN compiler.result
        /\ ram = NoRam

\* x <- y * (2 + x / 0): the division is two levels down in the right operand
C29_Witness ==
    /\ compiler # NoCompiler
    /\ ast.head.kind = "Block" /\ Len(ast.head.statements) = 4
    /\ Body = Assign(Vx, BinaryExpression(Vy, "mult",
                 BinaryExpression(Lit(2), "plus", BinaryExpression(Vx, "div", Lit(0)))))
    /\ compiler.result.exc = "CompileError"
    /\ compiler.result.message = "Attempt to divide by literal 0 in "


(***************************************************************************)
(* The order in which compile meets the names of a program: a right        *)
(* operand before the left one, the target of an assignment after its      *)
(* expression, a temporary when the right operand that needs it has been   *)
(* compiled.  Temporaries appear as TemporaryMark.                         *)
(***************************************************************************)
TemporaryMark == "<<RESERVE REGISTER"

RECURSIVE ExpressionNames(_)
ExpressionNames(e) ==
    IF e.kind = "Variable" THEN <<e.name>>
    ELSE IF e.kind = "Negation"
    THEN IF e.exp.kind = "Literal" THEN <<>> ELSE ExpressionNames(e.exp)
    ELSE IF e.kind = "Binary"
    THEN (IF e.right.kind = "Literal" THEN <<>>
          ELSE IF e.right.kind = "Variable" THEN <<e.right.name>>
          ELSE Append(ExpressionNames(e.right), TemporaryMark))
         \o ExpressionNames(e.left)
    ELSE <<>>

\* a comparison with the literal 0 compiles its left operand only
ConditionNames(e) ==
    IF e.kind = "Binary" /\ is_comparison_operator(e.operator) /\ is_zero(e.right)
    THEN ExpressionNames(e.left)
    ELSE ExpressionNames(e)

RECURSIVE StatementNames(_)
RECURSIVE BlockNames(_, _)

BlockNames(statements, i) ==
    IF i > Len(statements) THEN <<>>
    ELSE StatementNames(statements[i]) \o BlockNames(statements, i + 1)

StatementNames(s) ==
    IF s.kind = "Block" THEN BlockNames(s.statements, 1)
    ELSE IF s.kind = "Read" THEN <<s.variable.name>>
    ELSE IF s.kind = "Write" THEN ExpressionNames(s.value)
    ELSE IF s.kind = "Assignment"
    THEN Append(ExpressionNames(s.expression), s.variable.name)
    ELSE IF s.kind = "If"
    THEN ConditionNames(s.condition) \o StatementNames(s.true_body)
         \o StatementNames(s.else_body)
    ELSE IF s.kind = "While"
    THEN ConditionNames(s.condition) \o StatementNames(s.body)
    ELSE <<>>

\* the variables of the program being compiled
VariablesMet == Range(StatementNames(ast.head)) \ {TemporaryMark}

\* where the name is met first
FirstMet(name) ==
    CHOOSE i \in 1..Len(StatementNames(ast.head)) :
        /\ StatementNames(ast.head)[i] = name
        /\ \A j \in 1..(i - 1) : StatementNames(ast.head)[j] # name

\* k, for the k-th distinct variable
VariableRank(name) ==
    Cardinality({StatementNames(ast.head)[j] : j \in 1..FirstMet(name)} \ {TemporaryMark})

\* the number of temporaries reserved before the variable is met
TemporariesBefore(name) ==
    Cardinality({j \in 1..FirstMet(name) : StatementNames(ast.head)[j] = TemporaryMark})

\* C30 as stated: the k-th distinct variable the compiler meets is bound to
\* register k, also in programs that need temporaries
C30_VariableRegister ==
    Compiled =>
        \A name \in VariablesMet :
            /\ name \in DOMAIN compiler.cs._var_map
            /\ compiler.cs._var_map[name] = VariableRank(name)

\* C30, amended: the k-th distinct variable the compiler meets is bound to
\* register k + t, t being the number of temporaries reserved before the
\* variable is met; it is register k when no temporary was reserved by then
C30_VariableRegisterAfterTemporaries ==
    Compiled =>
        \A name \in VariablesMet :
            /\ name \in DOMAIN compiler.cs._var_map
            /\ compiler.cs._var_map[name] = VariableRank(name) + TemporariesBefore(name)
            /\ compiler.cs._var_map[name] >= 1

\* z <- y - (x * y) after the reads of x and y: the product went to register 3
\* and z, the third variable, to register 4
C30_Witness ==
    /\ Compiled
    /\ ast.head.kind = "Block" /\ Len(ast.head.statements) = 4
    /\ Body.kind = "Block" /\ Len(Body.statements) = 2
    /\ Body.statements[1].kind = "Assignment" /\ Body.statements[1].variable = Vz
    /\ VariableRank("z") = 3 /\ TemporariesBefore("z") = 1
    /\ compiler.cs._var_map["z"] = 4
    /\ ram.halted /\ ram.output_tape = <<-2, 2>>


(***************************************************************************)
(* Temporary registers, under SpecCompile.  The right operands that go     *)
(* through a temporary are listed in the order compile reserves their      *)
(* registers: the operands nested in a right operand before the operand    *)
(* itself, the right operand before what the left operand needs.           *)
(***************************************************************************)
RECURSIVE ExpressionTemporaries(_)
ExpressionTemporaries(e) ==
    IF e.kind = "Negation"
    THEN IF e.exp.kind = "Literal" THEN <<>> ELSE ExpressionTemporaries(e.exp)
    ELSE IF e.kind = "Binary"
    THEN (IF e.right.kind \in {"Literal", "Variable"} THEN <<>>
          ELSE Append(ExpressionTemporaries(e.right), e.right))
         \o ExpressionTemporaries(e.left)
    ELSE <<>>

\* a comparison with the literal 0 compiles its left operand only
ConditionTemporaries(e) ==
    IF e.kind = "Binary" /\ is_comparison_operator(e.operator) /\ is_zero(e.right)
    THEN ExpressionTemporaries(e.left)
    ELSE ExpressionTemporaries(e)

RECURSIVE StatementTemporaries(_)
RECURSIVE BlockTemporaries(_, _)

BlockTemporaries(statements, i) ==
    IF i > Len(statements) THEN <<>>
    ELSE StatementTemporaries(statements[i]) \o BlockTemporaries(statements, i + 1)

StatementTemporaries(s) ==
    IF s.kind = "Block" THEN BlockTemporaries(s.statements, 1)
    ELSE IF s.kind = "Assignment" THEN ExpressionTemporaries(s.expression)
    ELSE IF s.kind = "If"
    THEN ConditionTemporaries(s.condition) \o StatementTemporaries(s.true_body)
         \o StatementTemporaries(s.else_body)
    ELSE IF s.kind = "While"
    THEN ConditionTemporaries(s.condition) \o StatementTemporaries(s.body)
    ELSE <<>>

\* the _var_map keys that are not variables of the program
TemporaryNames == DOMAIN compiler.cs._var_map \ {"x", "y", "z"}

TemporaryRegisters == {compiler.cs._var_map[n] : n \in TemporaryNames}

\* registers are handed out in growing order: the operand whose value goes
\* to temporary register r
TemporaryOperand(r) ==
    StatementTemporaries(ast.head)[Cardinality({q \in TemporaryRegisters : q <= r})]

\* the instructions of the Program that write register r
WritersOf(r) ==
    {k \in 1..Len(compiler.result.program.instructions) :
        /\ compiler.result.program.instructions[k].opcode \in {"STORE", "READ"}
        /\ compiler.result.program.instructions[k].address = Operand(r, "direct")}

\* the last step executed an instruction that takes its operand from
\* temporary register r
CombinesWith(r) ==
    /\ LastExecuted
    /\ LastIns.opcode \in {"ADD", "SUB", "MULT", "DIV"}
    /\ LastIns.address = Operand(r, "direct")

\* C34: the register that receives the value of a complex right operand is
\* not register 0, not the register of a variable and not the register of
\* another temporary; the Program writes it with one STORE and nowhere else;
\* and each time the combining instruction executes, the register holds the
\* value of the right operand for the current values of the variables
C34_TemporariesFresh ==
    Compiled =>
        /\ Cardinality(TemporaryNames) = Len(StatementTemporaries(ast.head))
        /\ \A t \in TemporaryNames :
              /\ compiler.cs._var_map[t] >= 1
              /\ \A n \in DOMAIN compiler.cs._var_map \ {t} :
                    compiler.cs._var_map[n] # compiler.cs._var_map[t]
              /\ Cardinality(WritersOf(compiler.cs._var_map[t])) = 1
              /\ \A k \in WritersOf(compiler.cs._var_map[t]) :
                    compiler.result.program.instructions[k].opcode = "STORE"
        /\ \A r \in TemporaryRegisters :
              CombinesWith(r) =>
                 /\ RefEval(TemporaryOperand(r), EnvOf(last.pre)).ok
                 /\ c(last.pre, r) = RefEval(TemporaryOperand(r), EnvOf(last.pre)).v

\* x <- (x - y * y) - (y - x) on the tape 2, -3: y - x waits in register 3
\* while the left operand puts y * y in register 4, and the last SUB takes
\* -5 from register 3
C34_Witness ==
    /\ Compiled
    /\ ast.head.kind = "Block" /\ Len(ast.head.statements) = 4
    /\ Body.kind = "Assignment"
    /\ StatementTemporaries(ast.head)
          = << BinaryExpression(Vy, "minus", Vx), BinaryExpression(Vy, "mult", Vy) >>
    /\ TemporaryRegisters = {3, 4}
    /\ ram.input_tape = <<2, -3>>
    /\ CombinesWith(3)
    /\ c(last.pre, 4) = 9
    /\ c(last.pre, 3) = -5
    /\ c(last.pre, 0) = -7
    /\ c(ram, 0) = -2


(***************************************************************************)
(* The program counter of the compiler, under SpecCompile.                 *)
(***************************************************************************)
RECURSIVE SubStatements(_)
\* the statement and the statements nested in it
SubStatements(s) ==
    {s} \cup
    (IF s.kind = "Block"
     THEN UNION {SubStatements(s.statements[i]) : i \in 1..Len(s.statements)}
     ELSE IF s.kind = "If"
     THEN SubStatements(s.true_body)
          \cup (IF s.else_body = NoAst THEN {} ELSE SubStatements(s.else_body))
     ELSE IF s.kind = "While" THEN SubStatements(s.body)
     ELSE {})

\* compile_statement called with _pc = pc returns with _pc moved on by the
\* number of instructions it returns
CountsItsInstructions(s, pc) ==
    LET Counted(r) == r.exc = "none" => r.cs._pc = pc + Len(r.insts)
    IN  Counted(compile_statement([NewCompiler EXCEPT !._pc = pc], s))

\* the first k statements of the block that is the program
Leading(k) == BlockStatement(SubSeq(ast.head.statements, 1, k))

\* when the k-th statement of the program's block has returned, _pc is the
\* number of instructions emitted, they are the first _pc instructions of the
\* Program, and the labels installed by then, one at _pc among them, are
\* labels of the Program at the same index
EmittedSoFar(k) ==
    LET SoFar(r) ==
            /\ r.exc = "none"
            /\ r.cs._pc = Len(r.insts)
            /\ r.insts = SubSeq(compiler.result.program.instructions, 1, r.cs._pc)
            /\ Range(r.cs._jumptable) \subseteq Range(compiler.result.program.jumptable)
            /\ \A j \in 1..Len(r.cs._jumptable) : r.cs._jumptable[j].value <= r.cs._pc
    IN  SoFar(compile_statement(NewCompiler, Leading(k)))

\* C39: whenever compile_statement returns, _pc has grown by the number of
\* instructions the statement contributed, so that _pc is the index of the
\* next instruction to be emitted and a label installed at _pc denotes it
\* (also where + 0 and - 0 emit nothing, * 0 emits one LOAD, and _pc was
\* moved on ahead of a jump appended later); when compile returns, _pc is the
\* number of instructions of the Program
C39_ProgramCounter ==
    Compiled =>
        /\ compiler.cs._pc = Len(compiler.result.program.instructions)
        /\ \A s \in SubStatements(ast.head) :
              \A pc \in {0, compiler.cs._pc} : CountsItsInstructions(s, pc)
        /\ ast.head.kind = "Block"
              => \A k \in 0..Len(ast.head.statements) : EmittedSoFar(k)

\* if x + 0 then write 1 else write 2: the condition is the one LOAD of x, and
\* else1 and endif1 sit where the branches were emitted
C39_Witness ==
    /\ Compiled
    /\ ast.head.kind = "Block" /\ Len(ast.head.statements) = 4
    /\ Body.kind = "If"
    /\ Body.condition = BinaryExpression(Vx, "plus", Lit(0))
    /\ Body.else_body # NoAst
    /\ compiler.cs._pc = 9
    /\ Len(compiler.result.program.instructions) = 9
    /\ DictGet(compiler.cs._jumptable, ElseLabel1) = 6
    /\ compile_statement(NewCompiler, Leading(3)).cs._pc = 7
    /\ ram.halted /\ ram.input_tape = <<0, 2>> /\ ram.output_tape = <<2, 0>>


(***************************************************************************)
(* Two compile calls on one RamCompiler instance, under SpecCompile.       *)
(***************************************************************************)
\* C40: compiling the same AST twice with the same RamCompiler instance
\* returns two equal Programs: the same instructions and the same jumptable
\* keys and values
C40_RepeatableCompilation ==
    Recompiled /\ Compiled =>
        /\ compiler.again.result.exc = "none"
        /\ ProgramEq(compiler.again.result.program, compiler.result.program)


(***************************************************************************)
(* BufferedTokenStream (daca/common/token.py).  s is the instance: stream  *)
(* is the source's tokens, _it the number of them the iterator has yielded,*)
(* _buf the deque, _index and _checkpoints as in the class.  A method      *)
(* returns [s, ret, exc]: the instance afterwards, the token returned and  *)
(* the exception raised ("none" when it returns normally).                 *)
(***************************************************************************)
NoToken == [tag |-> "none", value |-> <<>>]

NewBufferedTokenStream(stream) ==
    [stream |-> stream, _it |-> 0, _buf |-> <<>>, _index |-> 0, _checkpoints |-> <<>>]

BtsOk(s, ret) == [s |-> s, ret |-> ret, exc |-> "none"]

BtsRaise(s, exc) == [s |-> s, ret |-> NoToken, exc |-> exc]

\* next(self._it): the source ends with StopIteration; the lexer raises
\* ParseError on reaching an error token (ret is then the token the
\* exception carries), and is exhausted afterwards
ItNext(s) ==
    IF s._it >= Len(s.stream) THEN BtsRaise(s, "StopIteration")
    ELSE IF s.stream[s._it + 1].tag = "error"
         THEN [s |-> [s EXCEPT !._it = Len(s.stream)], ret |-> s.stream[s._it + 1],
               exc |-> "ParseError"]
         ELSE BtsOk([s EXCEPT !._it = @ + 1], s.stream[s._it + 1])

\* self._buf.append(next(self._it))
BufAppendNext(s) ==
    LET K(p) == IF p.exc # "none" THEN p
                ELSE BtsOk([p.s EXCEPT !._buf = Append(@, p.ret)], p.ret)
    IN  K(ItNext(s))

\* self._index += 1; return self._buf[self._index - 1]
IndexedNext(s) ==
    IF s._index + 1 > Len(s._buf)
    THEN BtsRaise([s EXCEPT !._index = @ + 1], "IndexError")
    ELSE BtsOk([s EXCEPT !._index = @ + 1], s._buf[s._index + 1])

\* the mutant moves _index on before the token is there: a next() that finds
\* the source exhausted under a checkpoint leaves _index one too far
next_mut_early(s) ==
    IF Len(s._checkpoints) > 0
    THEN IF Len(s._buf) < s._index + 1
         THEN LET K(p) == IF p.exc # "none" THEN [p EXCEPT !.s._index = @ + 1]
                          ELSE IndexedNext(p.s)
              IN  K(BufAppendNext(s))
         ELSE IndexedNext(s)
    ELSE IF Len(s._buf) > 0
         THEN BtsOk([s EXCEPT !._buf = Tail(@)], Head(s._buf))
         ELSE ItNext(s)

next(s) ==
    IF Len(s._checkpoints) > 0
    THEN IF Len(s._buf) < s._index + 1
         THEN LET K(p) == IF p.exc # "none" THEN p ELSE IndexedNext(p.s)
              IN  K(BufAppendNext(s))
         ELSE IndexedNext(s)
    ELSE IF Len(s._buf) > 0
         THEN BtsOk([s EXCEPT !._buf = Tail(@)], Head(s._buf))
         ELSE ItNext(s)

RECURSIVE PeekFill(_, _)
\* the mutant gives up the token it buffered last when the source ends
\* during a peek
PeekFill_mut_drop(s, need) ==
    IF need <= 0 THEN BtsOk(s, NoToken)
    ELSE LET K(p) == IF p.exc = "StopIteration"
                     THEN BtsRaise([p.s EXCEPT !._buf = SubSeq(@, 1, Len(@) - 1)],
                                   "IndexError")
                     ELSE IF p.exc # "none" THEN p
                     ELSE PeekFill(p.s, need - 1)
         IN  K(BufAppendNext(s))

\* the loop of peek: `need` appends, cut short by the source's exception
PeekFill(s, need) ==
    IF need <= 0 THEN BtsOk(s, NoToken)
    ELSE LET K(p) == IF p.exc = "StopIteration" THEN BtsRaise(p.s, "IndexError")
                     ELSE IF p.exc # "none" THEN p
                     ELSE PeekFill(p.s, need - 1)
         IN  K(BufAppendNext(s))

\* peek ignoring _index: the n-th buffered token
peek_mut_noindex(s, n) ==
    IF n < 1 THEN BtsRaise(s, "IndexError")
    ELSE LET K(p) == IF p.exc # "none" THEN p
                     ELSE BtsOk(p.s, p.s._buf[n])
         IN  K(PeekFill(s, s._index + n - Len(s._buf)))

peek(s, n) ==
    IF n < 1 THEN BtsRaise(s, "IndexError")
    ELSE LET K(p) == IF p.exc # "none" THEN p
                     ELSE BtsOk(p.s, p.s._buf[p.s._index + n])
         IN  K(PeekFill(s, s._index + n - Len(s._buf)))

checkpoint(s) == BtsOk([s EXCEPT !._checkpoints = Append(@, s._index)], NoToken)

Front(q) == SubSeq(q, 1, Len(q) - 1)

Last(q) == q[Len(q)]

\* rollback dropping the checkpoint without moving back
rollback_mut_stay(s) ==
    IF Len(s._checkpoints) = 0 THEN BtsRaise(s, "IndexError")
    ELSE BtsOk([s EXCEPT !._checkpoints = Front(@)], NoToken)

\* rollback moving back to the oldest checkpoint
rollback_mut_oldest(s) ==
    IF Len(s._checkpoints) = 0 THEN BtsRaise(s, "IndexError")
    ELSE BtsOk([s EXCEPT !._index = s._checkpoints[1], !._checkpoints = Front(@)],
               NoToken)

\* list.pop() on an empty list raises IndexError
rollback(s) ==
    IF Len(s._checkpoints) = 0 THEN BtsRaise(s, "IndexError")
    ELSE BtsOk([s EXCEPT !._index = Last(s._checkpoints), !._checkpoints = Front(@)],
               NoToken)

\* commit resetting _index without releasing the consumed tokens
commit_mut_keep(s) ==
    IF Len(s._checkpoints) = 0 THEN BtsRaise(s, "IndexError")
    ELSE IF Len(s._checkpoints) > 1
         THEN BtsOk([s EXCEPT !._checkpoints = Front(@)], NoToken)
         ELSE BtsOk([s EXCEPT !._checkpoints = <<>>, !._index = 0], NoToken)

\* deque.popleft() on an empty deque raises IndexError
commit(s) ==
    IF Len(s._checkpoints) = 0 THEN BtsRaise(s, "IndexError")
    ELSE IF Len(s._checkpoints) > 1
         THEN BtsOk([s EXCEPT !._checkpoints = Front(@)], NoToken)
         ELSE IF s._index > Len(s._buf)
              THEN BtsRaise([s EXCEPT !._checkpoints = <<>>, !._buf = <<>>], "IndexError")
              ELSE BtsOk([s EXCEPT !._checkpoints = <<>>,
                                   !._buf = SubSeq(@, s._index + 1, Len(@)),
                                   !._index = 0], NoToken)

(***************************************************************************)
(* A caller of BufferedTokenStream making any sequence of calls on a       *)
(* source of up to MaxTokens tokens.  btsLog keeps the last call (op, n,   *)
(* ret, exc), the instance before it (pre), and the caller's own count of  *)
(* where it stands: pos, the number of source tokens it has taken and not  *)
(* given back by a rollback; marks, pos at each checkpoint still live;     *)
(* seg, the tokens taken since the latest checkpoint, kept while nothing   *)
(* but next and peek was called since (clean, and wasclean before the last *)
(* call); stackop, the last of checkpoint / rollback / commit before this  *)
(* call.                                                                   *)
(***************************************************************************)
SourceToken(k) == Token("literal_integer", NatToChars(k))

Source(n) == [k \in 1..n |-> SourceToken(k)]

InitStream ==
    /\ \E n \in 0..MaxTokens : bts = NewBufferedTokenStream(Source(n))
    /\ btsLog = [op |-> "new", n |-> 0, ret |-> NoToken, exc |-> "none", pre |-> NoStream,
                 pos |-> 0, marks |-> <<>>, seg |-> <<>>, clean |-> FALSE,
                 wasclean |-> FALSE, stackop |-> "none"]
    /\ parser = NoParser
    /\ RamIdle
    /\ CompIdle
    /\ codec = NoCodec

Logged(op, n, r) ==
    [btsLog EXCEPT !.op = op, !.n = n, !.ret = r.ret, !.exc = r.exc, !.pre = bts,
                   !.wasclean = btsLog.clean,
                   !.stackop = IF btsLog.op \in {"checkpoint", "rollback", "commit"}
                                  /\ btsLog.exc = "none"
                               THEN btsLog.op ELSE @]

BtsNext ==
    /\ bts # NoStream
    /\ LET r == next(bts)
       IN  /\ bts' = r.s
           /\ btsLog' = IF r.exc # "none" THEN Logged("next", 0, r)
                        ELSE [Logged("next", 0, r) EXCEPT
                                 !.pos = @ + 1,
                                 !.seg = IF btsLog.clean THEN Append(@, r.ret) ELSE @]
    /\ UNCHANGED <<ramVars, compVars, codec, parser>>

BtsPeek ==
    /\ bts # NoStream
    /\ \E n \in 0..MaxPeek :
          LET r == peek(bts, n)
          IN  /\ bts' = r.s
              /\ btsLog' = Logged("peek", n, r)
    /\ UNCHANGED <<ramVars, compVars, codec, parser>>

BtsCheckpoint ==
    /\ bts # NoStream
    /\ Len(bts._checkpoints) < MaxDepth
    /\ LET r == checkpoint(bts)
       IN  /\ bts' = r.s
           /\ btsLog' = [Logged("checkpoint", 0, r) EXCEPT
                            !.marks = Append(@, btsLog.pos),
                            !.seg = <<>>, !.clean = TRUE]
    /\ UNCHANGED <<ramVars, compVars, codec, parser>>

BtsRollback ==
    /\ bts # NoStream
    /\ LET r == rollback(bts)
       IN  /\ bts' = r.s
           /\ btsLog' = IF r.exc # "none" THEN Logged("rollback", 0, r)
                        ELSE [Logged("rollback", 0, r) EXCEPT
                                 !.pos = Last(btsLog.marks),
                                 !.marks = Front(@), !.clean = FALSE]
    /\ UNCHANGED <<ramVars, compVars, codec, parser>>

BtsCommit ==
    /\ bts # NoStream
    /\ LET r == commit(bts)
       IN  /\ bts' = r.s
           /\ btsLog' = IF r.exc # "none" THEN Logged("commit", 0, r)
                        ELSE [Logged("commit", 0, r) EXCEPT !.marks = Front(@),
                                                           !.clean = FALSE]
    /\ UNCHANGED <<ramVars, compVars, codec, parser>>

NextStream == BtsNext \/ BtsPeek \/ BtsCheckpoint \/ BtsRollback \/ BtsCommit

SpecStream == InitStream /\ [][NextStream]_vars


(***************************************************************************)
(* Properties of BufferedTokenStream, checked under SpecStream.            *)
(***************************************************************************)
RECURSIVE Deliver(_)
\* the tokens that successive next() calls on s return, up to the exception
Deliver(s) ==
    LET K(r) == IF r.exc # "none" THEN <<>> ELSE <<r.ret>> \o Deliver(r.s)
    IN  K(next(s))

\* the source from its (k+1)-th token on
Rest(k) == SubSeq(bts.stream, k + 1, Len(bts.stream))

RolledBack == btsLog.op = "rollback" /\ btsLog.exc = "none"

Committed == btsLog.op = "commit" /\ btsLog.exc = "none"

\* C16: after checkpoint(), k next() calls with any peeks among them, and
\* rollback(), the next() calls that follow return the same k tokens in the
\* same order and then the rest of the source.
C16_Rollback ==
    (RolledBack /\ btsLog.wasclean)
        => Deliver(bts) = btsLog.seg \o Rest(btsLog.pos + Len(btsLog.seg))

\* two tokens taken and a third peeked under a checkpoint, then rolled back
C16_Witness ==
    /\ RolledBack
    /\ btsLog.wasclean
    /\ Len(btsLog.seg) >= 2
    /\ Len(bts._buf) > Len(btsLog.seg)
    /\ Len(Deliver(bts)) > Len(bts._buf)

\* C17: after checkpoint(), k next() calls and the outermost commit(), next()
\* goes on with the token after the k consumed ones, the k tokens are gone
\* from the buffer, and the tokens peeked beyond them stay buffered in order.
C17_Commit ==
    (Committed /\ btsLog.wasclean /\ Len(bts._checkpoints) = 0)
        => /\ Deliver(bts) = Rest(btsLog.pos)
           /\ bts._index = 0
           /\ bts._buf = SubSeq(btsLog.pre._buf, Len(btsLog.seg) + 1, Len(btsLog.pre._buf))
           /\ \A j \in 1..Len(bts._buf) : bts._buf[j] \notin Range(btsLog.seg)
           /\ \A j \in 1..Len(bts._buf) : Deliver(bts)[j] = bts._buf[j]

\* two tokens consumed and a third peeked under the only checkpoint, committed
C17_Witness ==
    /\ Committed
    /\ btsLog.wasclean
    /\ Len(bts._checkpoints) = 0
    /\ Len(btsLog.seg) >= 2
    /\ Len(bts._buf) >= 1
    /\ Len(Deliver(bts)) > Len(bts._buf)

\* C18: peek(n), n >= 1, returns the n-th token that the next() calls after
\* it return and leaves those tokens as they were before the call, with or
\* without a live checkpoint; peek(1) is the token the next next() returns.
C18_PeekFrame ==
    (btsLog.op = "peek" /\ btsLog.n >= 1)
        => /\ Deliver(bts) = Deliver(btsLog.pre)
           /\ btsLog.exc = (IF btsLog.n <= Len(Deliver(btsLog.pre))
                            THEN "none" ELSE "IndexError")
           /\ btsLog.exc = "none" => btsLog.ret = Deliver(bts)[btsLog.n]
           /\ (btsLog.exc = "none" /\ btsLog.n = 1) => btsLog.ret = next(bts).ret

\* peek(2) under a checkpoint, one token past it, after an earlier rollback,
\* reading from the source
C18_Witness ==
    /\ btsLog.op = "peek"
    /\ btsLog.n = 2
    /\ btsLog.exc = "none"
    /\ Len(bts._checkpoints) >= 1
    /\ bts._index >= 1
    /\ btsLog.stackop = "rollback"
    /\ Len(bts._buf) > Len(btsLog.pre._buf)

\* C19: rollback() and commit() pop the most recent live checkpoint and leave
\* the older ones live; rollback() goes back to where that checkpoint was
\* taken, also when an inner checkpoint was committed since; commit() stays
\* where it is.
C19_StackDiscipline ==
    /\ RolledBack => /\ bts._checkpoints = Front(btsLog.pre._checkpoints)
                     /\ Len(bts._checkpoints) = Len(btsLog.marks)
                     /\ Deliver(bts) = Rest(btsLog.pos)
    /\ Committed => /\ bts._checkpoints = Front(btsLog.pre._checkpoints)
                    /\ Len(bts._checkpoints) = Len(btsLog.marks)
                    /\ Deliver(bts) = Deliver(btsLog.pre)

\* the outer checkpoint rolled back over two tokens after an inner commit
C19_Witness ==
    /\ RolledBack
    /\ btsLog.stackop = "commit"
    /\ Len(bts._checkpoints) = 0
    /\ Len(Deliver(bts)) >= Len(Deliver(btsLog.pre)) + 2

\* C37: after any sequence of next / peek / checkpoint / rollback / commit
\* calls, 0 <= _index <= len(_buf), the entries of _checkpoints do not
\* decrease from bottom to top and none exceeds _index, and _index is 0
\* whenever no checkpoint is live
C37_StreamInvariant ==
    bts # NoStream =>
        /\ 0 <= bts._index /\ bts._index <= Len(bts._buf)
        /\ \A j \in 1..Len(bts._checkpoints) :
              /\ 0 <= bts._checkpoints[j] /\ bts._checkpoints[j] <= bts._index
              /\ j > 1 => bts._checkpoints[j - 1] <= bts._checkpoints[j]
        /\ Len(bts._checkpoints) = 0 => bts._index = 0

\* two live checkpoints taken at different places, a token consumed since the
\* inner one and another buffered by a peek(2) that found the source
\* exhausted
C37_Witness ==
    /\ bts._checkpoints = <<0, 1>>
    /\ bts._index = 2
    /\ Len(bts._buf) = 3
    /\ bts._it = Len(bts.stream)
    /\ btsLog.op = "peek" /\ btsLog.exc = "IndexError"
    /\ Len(btsLog.pre._buf) = 2


\* C38: for any interleaving of next / peek / checkpoint / rollback / commit,
\* each token next() returns is the source token that follows those returned
\* before and not undone by a rollback, next() fails only when all source
\* tokens have been delivered, and the next() calls still to come deliver
\* exactly the rest of the source; so the tokens returned, those undone by a
\* rollback deleted, are a prefix of the source in source order, also after
\* a peek that failed at end of input with tokens buffered
C38_NoTokenLost ==
    bts # NoStream =>
        /\ btsLog.pos <= Len(bts.stream)
        /\ Deliver(bts) = Rest(btsLog.pos)
        /\ btsLog.op = "next" /\ btsLog.exc = "none"
              => /\ btsLog.pos >= 1
                 /\ btsLog.ret = bts.stream[btsLog.pos]
        /\ btsLog.op = "next" /\ btsLog.exc # "none"
              => /\ btsLog.exc = "StopIteration"
                 /\ btsLog.pos = Len(bts.stream)
                 /\ bts = btsLog.pre

\* peek(2) with one source token left, after a rollback: the peek buffers
\* the token and raises IndexError, and the token is still delivered
C38_Witness ==
    /\ btsLog.op = "peek" /\ btsLog.n = 2 /\ btsLog.exc = "IndexError"
    /\ Len(bts._buf) = Len(btsLog.pre._buf) + 1
    /\ btsLog.stackop = "rollback"
    /\ btsLog.pos = Len(bts.stream) - 1
    /\ btsLog.pos >= 2
    /\ Deliver(bts) = <<bts.stream[Len(bts.stream)]>>


(***************************************************************************)
(* The Pidgin ALGOL parser (daca/pidgin_algol/parser.py), on the tokens    *)
(* its lexer yields.  A token is [tag, value, line, column]; value is the  *)
(* token's text, a non-ASCII character being written by its code point.    *)
(* ps is the parser: ts its BufferedTokenStream, depth the largest number  *)
(* of checkpoints ts has held at one time.  A read_ method returns         *)
(* [ps, exc, node, column]: the node read, or the exception raised with    *)
(* the column given to it (-1 when none is given).                         *)
(***************************************************************************)
Keyword ==
    [begin |-> <<"b","e","g","i","n">>, end |-> <<"e","n","d">>,
     read |-> <<"r","e","a","d">>, if_ |-> <<"i","f">>, then |-> <<"t","h","e","n">>,
     else_ |-> <<"e","l","s","e">>, while_ |-> <<"w","h","i","l","e">>,
     do |-> <<"d","o">>, write |-> <<"w","r","i","t","e">>]

LeftArrow == <<"U+2190">>

\* BinaryOperator(tok.value), with the spellings <=, >=, != added
BinaryOperatorOf ==
    << <<(<<"=">>), "equals">>, <<(<<"U+2260">>), "not_equals">>, <<(<<"<">>), "lt">>,
       <<(<<"U+2264">>), "le">>, <<(<<">">>), "gt">>, <<(<<"U+2265">>), "ge">>,
       <<(<<"+">>), "plus">>, <<(<<"-">>), "minus">>, <<(<<"*">>), "mult">>,
       <<(<<"/">>), "div">>, <<(<<"<","=">>), "le">>, <<(<<">","=">>), "ge">>,
       <<(<<"!","=">>), "not_equals">> >>

IsBinaryOperator(value) == \E k \in 1..Len(BinaryOperatorOf) : BinaryOperatorOf[k][1] = value

ToBinaryOperator(value) ==
    BinaryOperatorOf[CHOOSE k \in 1..Len(BinaryOperatorOf) : BinaryOperatorOf[k][1] = value][2]

PaOk(ps, node) == [ps |-> ps, exc |-> "none", node |-> node, column |-> -1]

PaRaise(ps, exc, column) == [ps |-> ps, exc |-> exc, node |-> NoAst, column |-> column]

\* an exception of the token stream leaves the parser; the lexer's
\* ParseError carries the column of the token it refuses
PaStreamRaise(t) ==
    PaRaise(t.ps, t.exc, IF t.exc = "ParseError" THEN t.ret.column ELSE -1)

\* a call on the parser's token stream: [ps, exc, ret]
PaCall(ps, r) == [ps |-> [ps EXCEPT !.ts = r.s], exc |-> r.exc, ret |-> r.ret]

PaNext(ps) == PaCall(ps, next(ps.ts))

PaPeek(ps) == PaCall(ps, peek(ps.ts, 1))

PaCheckpoint(ps) ==
    LET s == checkpoint(ps.ts).s
    IN  [ts |-> s,
         depth |-> IF Len(s._checkpoints) > ps.depth THEN Len(s._checkpoints) ELSE ps.depth]

\* assert_token(token, tag, value) passes; values = {} stands for value=None
assert_token(token, tag, values) ==
    token.tag = tag /\ (values = {} \/ token.value \in values)

read_variable_expression(ps) ==
    LET K(t) == IF t.exc # "none" THEN PaStreamRaise(t)
                ELSE IF ~assert_token(t.ret, "literal_id", {})
                     THEN PaRaise(t.ps, "ParseError", t.ret.column)
                ELSE PaOk(t.ps, VariableExpression(t.ret.value))
    IN  K(PaNext(ps))

read_literal_expression(ps) ==
    LET K(t) == IF t.exc # "none" THEN PaStreamRaise(t)
                ELSE IF ~assert_token(t.ret, "literal_integer", {})
                     THEN PaRaise(t.ps, "ParseError", t.ret.column)
                ELSE PaOk(t.ps, LiteralExpression(CharsToNat(t.ret.value)))
    IN  K(PaNext(ps))

read_unary_expression(ps) ==
    LET K(top) == IF top.exc # "none" THEN PaStreamRaise(top)
                  ELSE IF top.ret.tag = "literal_id" THEN read_variable_expression(top.ps)
                  ELSE IF top.ret.tag = "literal_integer"
                       THEN read_literal_expression(top.ps)
                  ELSE PaRaise(top.ps, "ParseError", -1)
    IN  K(PaPeek(ps))

RECURSIVE read_expression(_), read_binary_expression(_)
read_binary_expression(ps) ==
    LET KRight(left, op, r) ==
            IF r.exc # "none" THEN r
            ELSE PaOk(r.ps, BinaryExpression(left, op, r.node))
        KTok(left, t) ==
            IF t.exc # "none" THEN PaStreamRaise(t)
            ELSE IF ~IsBinaryOperator(t.ret.value) THEN PaRaise(t.ps, "ParseError", -1)
            ELSE KRight(left, ToBinaryOperator(t.ret.value), read_expression(t.ps))
        KLeft(l) == IF l.exc # "none" THEN l ELSE KTok(l.node, PaNext(l.ps))
    IN  KLeft(read_unary_expression(ps))

\* the mutant commits the failed binary attempt instead of rolling it back
read_expression_mut_commit(ps) ==
    LET K(b) == IF b.exc = "none"
                THEN PaOk([b.ps EXCEPT !.ts = commit(@).s], b.node)
                ELSE IF b.exc = "ParseError"
                     THEN read_unary_expression([b.ps EXCEPT !.ts = commit(@).s])
                ELSE b
    IN  K(read_binary_expression(PaCheckpoint(ps)))

read_expression(ps) ==
    LET K(b) == IF b.exc = "none"
                THEN PaOk([b.ps EXCEPT !.ts = commit(@).s], b.node)
                ELSE IF b.exc = "ParseError"
                     THEN read_unary_expression([b.ps EXCEPT !.ts = rollback(@).s])
                ELSE b
    IN  K(read_binary_expression(PaCheckpoint(ps)))

read_read(ps) ==
    LET KVar(r) == IF r.exc # "none" THEN r ELSE PaOk(r.ps, ReadStatement(r.node))
        K(t) == IF t.exc # "none" THEN PaStreamRaise(t)
                ELSE IF ~assert_token(t.ret, "keyword", {Keyword.read})
                     THEN PaRaise(t.ps, "ParseError", t.ret.column)
                ELSE KVar(read_variable_expression(t.ps))
    IN  K(PaNext(ps))

read_write(ps) ==
    LET KExp(r) == IF r.exc # "none" THEN r ELSE PaOk(r.ps, WriteStatement(r.node))
        K(t) == IF t.exc # "none" THEN PaStreamRaise(t)
                ELSE IF ~assert_token(t.ret, "keyword", {Keyword.write})
                     THEN PaRaise(t.ps, "ParseError", t.ret.column)
                ELSE KExp(read_unary_expression(t.ps))
    IN  K(PaNext(ps))

read_assignment(ps) ==
    LET KExp(tgt, r) ==
            IF r.exc # "none" THEN r
            ELSE PaOk(r.ps, AssignmentStatement(VariableExpression(tgt.value), r.node))
        KArrow(tgt, t) ==
            IF t.exc # "none" THEN PaStreamRaise(t)
            ELSE IF ~assert_token(t.ret, "symbol", {LeftArrow, <<"<","-">>})
                 THEN PaRaise(t.ps, "ParseError", t.ret.column)
            ELSE KExp(tgt, read_expression(t.ps))
        K(t) == IF t.exc # "none" THEN PaStreamRaise(t)
                ELSE IF ~assert_token(t.ret, "literal_id", {})
                     THEN PaRaise(t.ps, "ParseError", t.ret.column)
                ELSE KArrow(t.ret, PaNext(t.ps))
    IN  K(PaNext(ps))

RECURSIVE read_statement(_), read_block(_), BlockLoop(_, _), BlockSeparator(_, _),
          read_if(_), read_while(_)
\* after a statement of a block: `;` is consumed, `end` is left, anything
\* else is a ParseError of the except clause
BlockSeparator(ps, stmts) ==
    LET KAgain(pk) ==
            IF pk.exc # "none" THEN PaStreamRaise(pk)
            ELSE IF ~assert_token(pk.ret, "keyword", {Keyword.end})
                 THEN PaRaise(pk.ps, "ParseError", pk.ret.column)
            ELSE BlockLoop(pk.ps, stmts)
        KSemi(t) == IF t.exc # "none" THEN PaStreamRaise(t)
                    ELSE BlockLoop(t.ps, stmts)
        K(pk) == IF pk.exc = "ParseError" THEN KAgain(PaPeek(pk.ps))
                 ELSE IF pk.exc # "none" THEN PaStreamRaise(pk)
                 ELSE IF assert_token(pk.ret, "symbol", {<<";">>}) THEN KSemi(PaNext(pk.ps))
                 ELSE KAgain(PaPeek(pk.ps))
    IN  K(PaPeek(ps))

\* the loop `while self.peek().value != "end"` of read_block and the `end`
BlockLoop(ps, stmts) ==
    LET KEnd(t) == IF t.exc # "none" THEN PaStreamRaise(t)
                   ELSE IF ~assert_token(t.ret, "keyword", {Keyword.end})
                        THEN PaRaise(t.ps, "ParseError", t.ret.column)
                   ELSE PaOk(t.ps, BlockStatement(stmts))
        KStmt(r) == IF r.exc # "none" THEN r
                    ELSE BlockSeparator(r.ps, Append(stmts, r.node))
        K(pk) == IF pk.exc # "none" THEN PaStreamRaise(pk)
                 ELSE IF pk.ret.value = Keyword.end THEN KEnd(PaNext(pk.ps))
                 ELSE KStmt(read_statement(pk.ps))
    IN  K(PaPeek(ps))

read_block(ps) ==
    LET K(t) == IF t.exc # "none" THEN PaStreamRaise(t)
                ELSE IF ~assert_token(t.ret, "keyword", {Keyword.begin})
                     THEN PaRaise(t.ps, "ParseError", t.ret.column)
                ELSE BlockLoop(t.ps, <<>>)
    IN  K(PaNext(ps))

read_if(ps) ==
    LET KElse(cond, body, r) ==
            IF r.exc # "none" THEN r
            ELSE PaOk(r.ps, IfStatement(cond, body, r.node))
        KElseTok(cond, body, t) ==
            IF t.exc # "none" THEN PaStreamRaise(t)
            ELSE KElse(cond, body, read_statement(t.ps))
        KTop(cond, body, top) ==
            IF top.exc # "none" THEN PaStreamRaise(top)
            ELSE IF top.ret.value = Keyword.else_
                 THEN KElseTok(cond, body, PaNext(top.ps))
            ELSE PaOk(top.ps, IfStatement(cond, body, NoAst))
        KBody(cond, r) ==
            IF r.exc # "none" THEN r ELSE KTop(cond, r.node, PaPeek(r.ps))
        KThen(cond, t) ==
            IF t.exc # "none" THEN PaStreamRaise(t)
            ELSE IF ~assert_token(t.ret, "keyword", {Keyword.then})
                 THEN PaRaise(t.ps, "ParseError", t.ret.column)
            ELSE KBody(cond, read_statement(t.ps))
        KCond(r) == IF r.exc # "none" THEN r ELSE KThen(r.node, PaNext(r.ps))
        K(t) == IF t.exc # "none" THEN PaStreamRaise(t)
                ELSE IF ~assert_token(t.ret, "keyword", {Keyword.if_})
                     THEN PaRaise(t.ps, "ParseError", t.ret.column)
                ELSE KCond(read_expression(t.ps))
    IN  K(PaNext(ps))

read_while(ps) ==
    LET KBody(cond, r) ==
            IF r.exc # "none" THEN r ELSE PaOk(r.ps, WhileStatement(cond, r.node))
        KDo(cond, t) ==
            IF t.exc # "none" THEN PaStreamRaise(t)
            ELSE IF ~assert_token(t.ret, "keyword", {Keyword.do})
                 THEN PaRaise(t.ps, "ParseError", t.ret.column)
            ELSE KBody(cond, read_statement(t.ps))
        KCond(r) == IF r.exc # "none" THEN r ELSE KDo(r.node, PaNext(r.ps))
        K(t) == IF t.exc # "none" THEN PaStreamRaise(t)
                ELSE IF ~assert_token(t.ret, "keyword", {Keyword.while_})
                     THEN PaRaise(t.ps, "ParseError", t.ret.column)
                ELSE KCond(read_expression(t.ps))
    IN  K(PaNext(ps))

read_statement(ps) ==
    LET K(top) ==
            IF top.exc # "none" THEN PaStreamRaise(top)
            ELSE IF top.ret.value = Keyword.begin THEN read_block(top.ps)
            ELSE IF top.ret.value = Keyword.read THEN read_read(top.ps)
            ELSE IF top.ret.value = Keyword.if_ THEN read_if(top.ps)
            ELSE IF top.ret.value = Keyword.while_ THEN read_while(top.ps)
            ELSE IF top.ret.value = Keyword.write THEN read_write(top.ps)
            ELSE IF top.ret.tag = "literal_id" THEN read_assignment(top.ps)
            ELSE PaRaise(top.ps, "ParseError", top.ret.column)
    IN  K(PaPeek(ps))

\* Parser.parse on an iterable of tokens: AST(head=self.read_statement())
PaParse(tokens) ==
    LET K(r) == IF r.exc # "none" THEN r ELSE PaOk(r.ps, AST(r.node))
    IN  K(read_statement([ts |-> NewBufferedTokenStream(tokens), depth |-> 0]))


(***************************************************************************)
(* The parser at work on the tokens of a program text: every text of up to *)
(* MaxPaLexemes lexemes over a small alphabet, and every prefix of a few   *)
(* longer programs.  Lexemes are separated by one space, which gives the   *)
(* columns.                                                                *)
(***************************************************************************)
PaSymbols ==
    { <<";">>, <<"=">>, <<"<">>, <<">">>, <<"+">>, <<"*">>, <<"/">>, <<"-">>,
      <<"<","=">>, <<">","=">>, <<"!","=">>, <<"<","-">>,
      <<"U+2260">>, <<"U+2264">>, <<"U+2265">>, <<"U+2190">> }

PaKeywords == {Keyword[k] : k \in DOMAIN Keyword}

\* the tag the lexer gives a lexeme (Tag, in the order of its alternatives)
PaTag(lexeme) ==
    IF lexeme \in PaKeywords THEN "keyword"
    ELSE IF lexeme \in PaSymbols THEN "symbol"
    ELSE IF Range(lexeme) \subseteq Digits THEN "literal_integer"
    ELSE IF Range(lexeme) \subseteq WordChars THEN "literal_id"
    ELSE "error"

RECURSIVE PaColumn(_, _)
\* the column of the k-th lexeme
PaColumn(lexemes, k) ==
    IF k <= 1 THEN 0 ELSE PaColumn(lexemes, k - 1) + Len(lexemes[k - 1]) + 1

PaTokens(lexemes) ==
    [k \in 1..Len(lexemes) |->
        [tag |-> PaTag(lexemes[k]), value |-> lexemes[k], line |-> 0,
         column |-> PaColumn(lexemes, k)]]

PaLexemes ==
    { Keyword.begin, Keyword.end, Keyword.write, <<"x">>, <<"1">>, <<"<","-">>,
      <<"+">>, <<";">> }

RECURSIVE PaShortTexts(_)
\* the texts of exactly n lexemes
PaShortTexts(n) ==
    IF n = 0 THEN {<<>>}
    ELSE {t \o <<l>> : t \in PaShortTexts(n - 1), l \in PaLexemes}

PaLongTexts ==
    { <<Keyword.begin, <<"x">>, <<"<","-">>, <<"a">>, <<"+">>, <<"b">>, <<"+">>, <<"c">>,
        <<";">>, Keyword.write, <<"x">>, Keyword.end>>,
      <<Keyword.if_, <<"a">>, <<"<">>, <<"b">>, Keyword.then, <<"x">>, <<"<","-">>, <<"1">>,
        Keyword.else_, <<"x">>, <<"U+2190">>, <<"a">>, <<"-">>, <<"1">>, <<";">> >>,
      <<Keyword.while_, <<"x">>, Keyword.do, Keyword.begin, Keyword.read, <<"x">>, <<";">>,
        <<"x">>, <<"<","-">>, <<"x">>, <<"*">>, <<"2">>, Keyword.end>>,
      <<Keyword.begin, <<"x">>, <<"<","-">>, <<"a">>, <<"+">>, <<"$">>, <<";">>,
        Keyword.end>>,
      <<Keyword.begin, Keyword.read, <<"x">>, Keyword.write, <<"x">>, Keyword.end>> }

PaTexts ==
    UNION {PaShortTexts(n) : n \in 0..MaxPaLexemes}
    \cup UNION {{SubSeq(t, 1, n) : n \in 0..Len(t)} : t \in PaLongTexts}

InitParse ==
    /\ \E t \in PaTexts : parser = [stage |-> "new", tokens |-> PaTokens(t)]
    /\ bts = NewBufferedTokenStream(<<>>)
    /\ btsLog = NoLog
    /\ RamIdle
    /\ CompIdle
    /\ codec = NoCodec

\* Parser().parse(tokens)
ParseCall ==
    /\ parser.stage = "new"
    /\ LET r == PaParse(parser.tokens)
       IN  /\ parser' = [stage |-> "parsed", tokens |-> parser.tokens,
                         result |-> [exc |-> r.exc, node |-> r.node, column |-> r.column,
                                     depth |-> r.ps.depth]]
           /\ bts' = r.ps.ts
    /\ UNCHANGED <<ramVars, compVars, codec, btsLog>>

NextParse == ParseCall

SpecParse == InitParse /\ [][NextParse]_vars


(***************************************************************************)
(* Properties of the Pidgin ALGOL parser, checked under SpecParse.         *)
(***************************************************************************)
\* C20: while a Pidgin ALGOL program is parsed, the parser's token stream
\* never holds more than one live checkpoint.
C20_SingleCheckpoint ==
    parser.stage = "parsed" => parser.result.depth <= 1

\* the Keyword.end token placed right after the tokens
EndAfter(tokens) ==
    [tag |-> "keyword", value |-> Keyword.end, line |-> 0,
     column |-> IF tokens = <<>> THEN 0
                ELSE Last(tokens).column + Len(Last(tokens).value) + 1]

RECURSIVE Closed(_, _)
\* the tokens followed by n times `end`
Closed(tokens, n) ==
    IF n = 0 THEN tokens ELSE Closed(Append(tokens, EndAfter(tokens)), n - 1)

\* the tokens are one statement, parsed to their last token
Complete(tokens) ==
    /\ PaParse(tokens).exc = "none"
    /\ PaParse(tokens).ps.ts._it = Len(tokens)
    /\ PaParse(tokens).ps.ts._buf = <<>>

\* the input ends after `begin` and zero or more statements: what is missing
\* for a complete statement is the `end` of one or two open blocks
Unterminated(tokens) ==
    \E n \in 1..MaxDepth : Complete(Closed(tokens, n))

\* C27: parsing an unterminated block raises a ParseError whose line and
\* column are those of a `begin` of the input
C27_UnterminatedBlock ==
    parser.stage = "parsed" /\ Unterminated(parser.tokens) =>
        /\ parser.result.exc = "ParseError"
        /\ \E k \in 1..Len(parser.tokens) :
              /\ parser.tokens[k].value = Keyword.begin
              /\ parser.result.column = parser.tokens[k].column

\* the token `;` placed right after the tokens
SeparatorAfter(tokens) ==
    [tag |-> "symbol", value |-> <<";">>, line |-> 0,
     column |-> Last(tokens).column + Len(Last(tokens).value) + 1]

\* the parse of the tokens followed by `;`
Followed(tokens) == PaParse(Append(tokens, SeparatorAfter(tokens)))

\* the tokens are exactly one statement: followed by `;` they parse, and the
\* parser takes all of them and leaves the `;`
IsStatement(tokens) ==
    /\ tokens # <<>>
    /\ Followed(tokens).exc = "none"
    /\ Followed(tokens).ps.ts._it - Len(Followed(tokens).ps.ts._buf) = Len(tokens)

\* C28: a single statement that is not a block and does not end in a block,
\* with nothing after it, parses without an exception to the AST it has when
\* something follows it
C28_StatementAtEndOfInput ==
    /\ parser.stage = "parsed"
    /\ IsStatement(parser.tokens)
    /\ parser.tokens[1].value # Keyword.begin
    /\ Last(parser.tokens).value # Keyword.end
    => /\ parser.result.exc = "none"
       /\ parser.result.node = Followed(parser.tokens).node

\* a token read_unary_expression accepts
IsUnit(token) == token.tag \in {"literal_id", "literal_integer"}

UnitNode(token) ==
    IF token.tag = "literal_id" THEN VariableExpression(token.value)
    ELSE LiteralExpression(CharsToNat(token.value))

RECURSIVE ExpressionEnd(_, _)
\* the tokens from the k-th on are u1 op1 u2 ... un t with t a token that is
\* not a binary operator: the position of t, and 0 when they are not
ExpressionEnd(tokens, k) ==
    IF k + 1 > Len(tokens) \/ ~IsUnit(tokens[k]) THEN 0
    ELSE IF IsBinaryOperator(tokens[k + 1].value) THEN ExpressionEnd(tokens, k + 2)
    ELSE IF tokens[k + 1].tag = "error" THEN 0
    ELSE k + 1

RECURSIVE RightNested(_, _, _)
\* BinaryExpression(u1, op1, BinaryExpression(u2, op2, ...)) of the tokens
\* from the k-th up to the one before the e-th
RightNested(tokens, k, e) ==
    IF k + 1 = e THEN UnitNode(tokens[k])
    ELSE BinaryExpression(UnitNode(tokens[k]), ToBinaryOperator(tokens[k + 1].value),
                          RightNested(tokens, k + 2, e))

\* the parser whose stream stands before the k-th token with nothing
\* buffered, as it does when read_assignment, read_if and read_while call
\* read_expression
ParserAt(tokens, k) ==
    [ts |-> [NewBufferedTokenStream(tokens) EXCEPT !._it = k - 1], depth |-> 0]

\* read_expression read the tokens from the k-th up to the one before the
\* e-th, and the stream delivers the e-th next
ReadsExpression(tokens, k, e) ==
    LET Then(r) ==
            /\ r.exc = "none"
            /\ r.node = RightNested(tokens, k, e)
            /\ next(r.ps.ts).exc = "none"
            /\ next(r.ps.ts).ret = tokens[e]
            /\ r.ps.ts._it - Len(r.ps.ts._buf) = e - 1
            /\ r.ps.ts._index = 0 /\ r.ps.ts._checkpoints = <<>>
    IN  Then(read_expression(ParserAt(tokens, k)))

\* C33: read_expression on tokens u1 op1 u2 ... un followed by a token t that
\* is not a binary operator returns the right-nested BinaryExpression(u1,
\* op1, BinaryExpression(u2, op2, ...)) whatever the operators are, and the
\* token the stream delivers next is t
C33_ExpressionParsing ==
    parser.stage = "parsed" =>
        \A k \in 1..Len(parser.tokens) :
            ExpressionEnd(parser.tokens, k) # 0
                => ReadsExpression(parser.tokens, k, ExpressionEnd(parser.tokens, k))

\* begin x <- a + b + c ; write x end: the assignment holds a + (b + c) and the
\* block went on with the `;` after the expression
C33_Witness ==
    /\ parser.stage = "parsed"
    /\ Len(parser.tokens) = 12
    /\ ExpressionEnd(parser.tokens, 4) = 9
    /\ parser.tokens[9].value = <<";">>
    /\ parser.result.exc = "none"
    /\ parser.result.node.head.kind = "Block"
    /\ parser.result.node.head.statements[1].expression
          = BinaryExpression(VariableExpression(<<"a">>), "plus",
               BinaryExpression(VariableExpression(<<"b">>), "plus",
                                VariableExpression(<<"c">>)))
    /\ parser.result.node.head.statements[1].expression
          = RightNested(parser.tokens, 4, 9)
    /\ parser.result.node.head.statements[2].kind = "Write"

====
